---- MODULE Spec2Model ----
(***************************************************************************)
(* Model of the request-dispatch core of the binigo framework:             *)
(*   pkg/container.go   - the service container (Bind, Singleton,          *)
(*                        Instance, Alias, Forget, Flush, Make)            *)
(*   pkg/router.go      - route compilation, matching and dispatch         *)
(*   pkg/application.go - the global middleware chain                      *)
(*   middleware         - RateLimitMiddleware, CORSMiddleware,             *)
(*                        RecoveryMiddleware, LoggerMiddleware,            *)
(*                        AuthMiddleware, JSONOnlyMiddleware,              *)
(*                        TrimTrailingSlashMiddleware                      *)
(* Each component has its own next-state relation and specification; the   *)
(* variables of the other components stay at their initial values.         *)
(***************************************************************************)
EXTENDS Integers, Sequences, FiniteSets, TLC

(***************************************************************************)
(* Bounds of the model.                                                    *)
(***************************************************************************)
\* migration names (timestamps) 1..MaxMigs
MaxMigs == 3
\* operations on the Migrator in one behaviour
MaxOps == 4
\* transactions begun in one behaviour
MaxTx == 3
\* requests served in one behaviour
MaxCtx == 3
\* outermost Make calls begun in one behaviour
MaxMakes == 2
\* goroutines calling Container.Make concurrently
MaxProcs == 2
\* objects the resolvers may construct in one behaviour
MaxObj == 2
\* Make calls begun in one behaviour
MaxCalls == 2
\* registration operations (Bind, Singleton, Instance, Alias, Forget, Flush)
MaxReg == 2
\* registration calls (Add, Group, Use, Router.Middleware, Route.Middleware)
\* made before the first request
MaxSetup == 4
\* segments of the templates handed to the matcher
MaxSegs == 2
\* largest quota handed to RateLimitMiddleware
MaxQuota == 2
\* requests that enter the rate limiter in one behaviour
MaxReqs == 4
\* length of the rate-limit window in clock ticks (time.Minute, scaled down)
Window == 2
\* last clock tick
MaxTime == 3
\* Application.Use calls with a built-in middleware
MaxChain == 2
\* fields of a struct handed to Resolve, parameters of a function handed to Call
MaxFields == 2

(***************************************************************************)
(* Go maps are functions with a finite domain.                             *)
(***************************************************************************)
EmptyMap == <<>>

MapPut(m, k, v) == [x \in DOMAIN m \cup {k} |-> IF x = k THEN v ELSE m[x]]

MapDel(m, k) == [x \in DOMAIN m \ {k} |-> m[x]]

(***************************************************************************)
(* Container                                                               *)
(***************************************************************************)
\* service names
Names == {"a", "b"}

\* resolver functions handed to Bind / Singleton; each call of a resolver
\* constructs a new object
Resolvers == {"r1"}

\* ready-made values handed to Instance (objects are 1..MaxObj, 0 is nil)
ExtVals == {-1}

Procs == 1..MaxProcs

VARIABLES
    bindings,   \* Container.bindings : name -> [resolver, singleton]
    instances,  \* Container.instances: name -> value
    aliases,    \* Container.aliases  : name -> name
    proc,       \* per goroutine: the position inside Make and its locals
    nextObj,    \* number of objects constructed by resolvers so far
    hist,       \* history, per name, since the name was last registered
    nCalls,     \* Make calls begun
    nReg        \* registration operations done

VARIABLES
    routes,     \* Router.routes: method -> sequence of Route, shared by all groups
    routers,    \* the Router objects: routers[1] is the root, the others are groups
    appMw,      \* Application.middleware
    nSetup,     \* registration calls made so far
    resp        \* the Context after the last request was served

VARIABLES
    mRoute,     \* a Route compiled from a template
    mValues,    \* the literals substituted for its parameters: name -> literal
    mResult,    \* what Route.Match returned for the substituted path
    mTried,     \* the path handed to Route.Match and how it was built
    mpc         \* "idle", "compiled" or "matched"

VARIABLES
    rlOn,       \* RateLimitMiddleware has been called
    quota,      \* requestsPerMinute
    clients,    \* the middleware's map: ip -> *client (an index into cobjs)
    cobjs,      \* the client structs on the heap: [requests, resetTime]
    now,        \* the clock
    rq,         \* per goroutine: the position inside the middleware and its locals
    rwin,       \* history, per client: the current window and the requests in it
    nReqs,      \* requests that entered the middleware
    last        \* the request that left the middleware last

VARIABLES
    chain,      \* Application.middleware, as the names of the built-in middleware
    booted,     \* the application was made by Bootstrap
    bres        \* the request served through the chain, with its response

VARIABLES
    must,       \* per goroutine: its Make call was made by MustMake
    wired       \* the last Resolve or Call, with what it injected

VARIABLES
    contexts,   \* the Context objects on the heap: [params, store]
    reqs        \* per goroutine: the request it serves and its Context

\* the variables of the concurrently served requests
xvars == <<contexts, reqs>>

VARIABLES
    mu,         \* Container.mu: readers holding it, the writer, writers waiting
    stacks,     \* per goroutine: the container calls in progress, innermost last
    graph,      \* Container.bindings, with what each resolver does with c
    cached,     \* the names that have an entry in Container.instances
    nMakes,     \* outermost Make calls begun
    finished    \* outermost Make calls returned whose resolver called the container

VARIABLES
    migrations, \* Migrator.migrations: the registered migrations, by name
    table,      \* the migrations table: the recorded names in the order of their ids
    mig,        \* the last operation on the Migrator, with what it did
    nOps        \* operations on the Migrator so far

\* the variables of the Migrator and its table
gvars == <<migrations, table, mig, nOps>>

VARIABLES
    txns,       \* the sql.Tx objects begun by DB.Transaction, with what was called on them
    tcall       \* per goroutine: its position inside DB.Transaction

\* the variables of DB.Transaction
tvars == <<txns, tcall>>

\* the variables of the container lock and the resolvers that call back
lvars == <<mu, stacks, graph, cached, nMakes, finished>>

\* the variables of the callers of Make inside the container
avars == <<must, wired>>

\* the variables of the built-in middleware chain
bvars == <<chain, booted, bres>>

\* the variables of the rate limiter
rvars == <<rlOn, quota, clients, cobjs, now, rq, rwin, nReqs, last>>

\* the variables of the matcher on its own
mvars == <<mRoute, mValues, mResult, mTried, mpc>>

\* the variables of the router and the application
dvars == <<routes, routers, appMw, nSetup, resp>>

\* the variables of the container
cvars == <<bindings, instances, aliases, proc, nextObj, hist, nCalls, nReg>>

IdleProc ==
    [pc |-> "idle", req |-> "", abstract |-> "", singleton |-> FALSE,
     resolver |-> "", instance |-> 0, ret |-> 0, err |-> FALSE]

\* history of one name: reg = a Bind/Singleton registered it and nothing but
\* Make calls touched it since; fresh = at that registration no instance was
\* cached for it, it was no alias and no Make of it was in progress;
\* hadInst = an instance was cached at that registration; made = finished
\* Make calls that resolved to the name; madeReq = finished Make calls that
\* asked for the name; invs = invocations of the resolver bound to the name;
\* rets = values returned by the Make calls that resolved to the name;
\* gone = a Forget of the name or a Flush has returned and nothing was
\* registered for the name since
NoHist ==
    [reg |-> FALSE, fresh |-> FALSE, hadInst |-> FALSE, made |-> 0,
     madeReq |-> 0, invs |-> 0, rets |-> {}, gone |-> FALSE]

Removed == [NoHist EXCEPT !.gone = TRUE]

InFlight(n) ==
    \E p \in Procs : /\ proc[p].pc \in {"resolve", "store"}
                     /\ (proc[p].abstract = n \/ proc[p].req = n)

RegHist(n) ==
    [reg |-> TRUE,
     fresh |-> n \notin DOMAIN instances /\ n \notin DOMAIN aliases /\ ~InFlight(n),
     hadInst |-> n \in DOMAIN instances,
     made |-> 0, madeReq |-> 0, invs |-> 0, rets |-> {}, gone |-> FALSE]

ContainerInit ==
    /\ bindings = EmptyMap
    /\ instances = EmptyMap
    /\ aliases = EmptyMap
    /\ proc = [p \in Procs |-> IdleProc]
    /\ nextObj = 0
    /\ hist = [n \in Names |-> NoHist]
    /\ nCalls = 0
    /\ nReg = 0

\* a Bind that drops the cached instance of the name it registers
BindDropsInstance(abstract, resolver) ==
    /\ nReg < MaxReg
    /\ bindings' = MapPut(bindings, abstract, [resolver |-> resolver, singleton |-> FALSE])
    /\ instances' = MapDel(instances, abstract)
    /\ hist' = [hist EXCEPT ![abstract] = RegHist(abstract)]
    /\ nReg' = nReg + 1
    /\ UNCHANGED <<aliases, proc, nextObj, nCalls>>

\* Container.Bind: bindings[abstract] = {resolver, singleton: false}
Bind(abstract, resolver) ==
    /\ nReg < MaxReg
    /\ bindings' = MapPut(bindings, abstract, [resolver |-> resolver, singleton |-> FALSE])
    /\ hist' = [hist EXCEPT ![abstract] = RegHist(abstract)]
    /\ nReg' = nReg + 1
    /\ UNCHANGED <<instances, aliases, proc, nextObj, nCalls>>

\* Container.Singleton: bindings[abstract] = {resolver, singleton: true}
Singleton(abstract, resolver) ==
    /\ nReg < MaxReg
    /\ bindings' = MapPut(bindings, abstract, [resolver |-> resolver, singleton |-> TRUE])
    /\ hist' = [hist EXCEPT ![abstract] = RegHist(abstract)]
    /\ nReg' = nReg + 1
    /\ UNCHANGED <<instances, aliases, proc, nextObj, nCalls>>

\* Container.Instance: instances[abstract] = instance
Instance(abstract, instance) ==
    /\ nReg < MaxReg
    /\ instances' = MapPut(instances, abstract, instance)
    /\ hist' = [hist EXCEPT ![abstract] = NoHist]
    /\ nReg' = nReg + 1
    /\ UNCHANGED <<bindings, aliases, proc, nextObj, nCalls>>

\* Container.Alias: aliases[alias] = abstract
Alias(alias, abstract) ==
    /\ nReg < MaxReg
    /\ aliases' = MapPut(aliases, alias, abstract)
    /\ hist' = [hist EXCEPT ![alias] = NoHist]
    /\ nReg' = nReg + 1
    /\ UNCHANGED <<bindings, instances, proc, nextObj, nCalls>>

\* Container.Forget: delete(bindings, abstract); delete(instances, abstract)
Forget(abstract) ==
    /\ nReg < MaxReg
    /\ bindings' = MapDel(bindings, abstract)
    /\ instances' = MapDel(instances, abstract)
    /\ hist' = [hist EXCEPT ![abstract] = Removed]
    /\ nReg' = nReg + 1
    /\ UNCHANGED <<aliases, proc, nextObj, nCalls>>

\* Container.Flush: the three maps are replaced by empty ones
Flush ==
    /\ nReg < MaxReg
    /\ bindings' = EmptyMap
    /\ instances' = EmptyMap
    /\ aliases' = EmptyMap
    /\ hist' = [n \in Names |-> Removed]
    /\ nReg' = nReg + 1
    /\ UNCHANGED <<proc, nextObj, nCalls>>

\* Container.Bound: a binding or an instance is stored under the name
\* as given
Bound(abstract) == abstract \in DOMAIN bindings \/ abstract \in DOMAIN instances

\* a Make without the alias step
ResolveAliasSkipped(abstract) == abstract

\* the alias step of Make: one lookup, not followed transitively
ResolveAlias(abstract) ==
    IF abstract \in DOMAIN aliases THEN aliases[abstract] ELSE abstract

\* what Make(req) does with the maps as they are, lines 66-83: the name it
\* looks up, and whether it returns the cached instance, fails, or goes on
\* to the resolver of the binding
MakeOutcomeIn(inst, req) ==
    LET abstract == ResolveAlias(req) IN
    IF abstract \in DOMAIN inst
    THEN [kind |-> "cached", name |-> abstract, value |-> inst[abstract],
          singleton |-> FALSE, resolver |-> ""]
    ELSE IF abstract \notin DOMAIN bindings
    THEN [kind |-> "error", name |-> abstract, value |-> 0,
          singleton |-> FALSE, resolver |-> ""]
    ELSE [kind |-> "resolve", name |-> abstract, value |-> 0,
          singleton |-> bindings[abstract].singleton,
          resolver |-> bindings[abstract].resolver]

MakeOutcome(req) == MakeOutcomeIn(instances, req)

\* a whole Make(req) call run on st = [instances, nextObj, hist]: the maps it
\* leaves, the value it returns and whether it failed
MakeIn(st, req) ==
    LET o == MakeOutcomeIn(st.instances, req)
        h == st.hist
        obj == st.nextObj + 1
    IN  CASE o.kind = "cached" ->
                [instances |-> st.instances, nextObj |-> st.nextObj,
                 hist |-> [n \in Names |->
                    LET h1 == IF n = o.name
                              THEN [h[n] EXCEPT !.made = @ + 1, !.rets = @ \cup {o.value}]
                              ELSE h[n]
                    IN  IF n = req THEN [h1 EXCEPT !.madeReq = @ + 1] ELSE h1],
                 value |-> o.value, err |-> FALSE]
          [] o.kind = "error" ->
                [instances |-> st.instances, nextObj |-> st.nextObj,
                 hist |-> [h EXCEPT ![req].madeReq = @ + 1],
                 value |-> 0, err |-> TRUE]
          [] o.kind = "resolve" ->
                [instances |-> IF o.singleton THEN MapPut(st.instances, o.name, obj)
                                              ELSE st.instances,
                 nextObj |-> obj,
                 hist |-> [n \in Names |->
                    LET h1 == IF n = o.name
                              THEN [h[n] EXCEPT !.made = @ + 1, !.rets = @ \cup {obj},
                                                !.invs = @ + 1]
                              ELSE h[n]
                    IN  IF n = req THEN [h1 EXCEPT !.madeReq = @ + 1] ELSE h1],
                 value |-> obj, err |-> FALSE]

\* a Make call that asked for req and resolved to abstract returns value
Returned(h, req, abstract, value, invoked) ==
    [n \in Names |->
        LET h1 == IF n = abstract
                  THEN [h[n] EXCEPT !.made = @ + 1, !.rets = @ \cup {value},
                                    !.invs = @ + (IF invoked THEN 1 ELSE 0)]
                  ELSE h[n]
        IN  IF n = req THEN [h1 EXCEPT !.madeReq = @ + 1] ELSE h1]

\* a Make that consults the binding before the instance cache
MakeLookupBindingFirst(p, req) ==
    /\ proc[p].pc = "idle"
    /\ nCalls < MaxCalls
    /\ nCalls' = nCalls + 1
    /\ LET abstract == ResolveAlias(req) IN
        IF abstract \in DOMAIN bindings
        THEN /\ proc' = [proc EXCEPT ![p] = [IdleProc EXCEPT !.pc = "resolve", !.req = req,
                            !.abstract = abstract,
                            !.singleton = bindings[abstract].singleton,
                            !.resolver = bindings[abstract].resolver]]
             /\ hist' = hist
        ELSE IF abstract \in DOMAIN instances
        THEN /\ proc' = [proc EXCEPT ![p] = [IdleProc EXCEPT !.pc = "done", !.req = req,
                            !.abstract = abstract, !.ret = instances[abstract]]]
             /\ hist' = IF abstract \in Names
                        THEN Returned(hist, req, abstract, instances[abstract], FALSE)
                        ELSE hist
        ELSE /\ proc' = [proc EXCEPT ![p] = [IdleProc EXCEPT !.pc = "done", !.req = req,
                            !.abstract = abstract, !.err = TRUE]]
             /\ hist' = [hist EXCEPT ![req].madeReq = @ + 1]
    /\ UNCHANGED <<bindings, instances, aliases, nextObj, nReg>>

\* Make, lines 64-83: under the read lock resolve the alias, return a cached
\* instance, else fetch the binding; without a binding fail
MakeLookup(p, req) ==
    /\ proc[p].pc = "idle"
    /\ nCalls < MaxCalls
    /\ nCalls' = nCalls + 1
    /\ LET abstract == ResolveAlias(req) IN
        IF abstract \in DOMAIN instances
        THEN /\ proc' = [proc EXCEPT ![p] = [IdleProc EXCEPT !.pc = "done", !.req = req,
                            !.abstract = abstract, !.ret = instances[abstract]]]
             /\ hist' = IF abstract \in Names
                        THEN Returned(hist, req, abstract, instances[abstract], FALSE)
                        ELSE hist
        ELSE IF abstract \notin DOMAIN bindings
        THEN /\ proc' = [proc EXCEPT ![p] = [IdleProc EXCEPT !.pc = "done", !.req = req,
                            !.abstract = abstract, !.err = TRUE]]
             /\ hist' = [hist EXCEPT ![req].madeReq = @ + 1]
        ELSE /\ proc' = [proc EXCEPT ![p] = [IdleProc EXCEPT !.pc = "resolve", !.req = req,
                            !.abstract = abstract,
                            !.singleton = bindings[abstract].singleton,
                            !.resolver = bindings[abstract].resolver]]
             /\ hist' = hist
    /\ UNCHANGED <<bindings, instances, aliases, nextObj, nReg>>

\* a Make that caches the result of a transient binding as well
MakeResolveTransientCached(p) ==
    /\ proc[p].pc = "resolve"
    /\ ~proc[p].singleton
    /\ nextObj < MaxObj
    /\ nextObj' = nextObj + 1
    /\ proc' = [proc EXCEPT ![p].pc = "done", ![p].instance = nextObj + 1,
                            ![p].ret = nextObj + 1]
    /\ instances' = MapPut(instances, proc[p].abstract, nextObj + 1)
    /\ hist' = Returned(hist, proc[p].req, proc[p].abstract, nextObj + 1, TRUE)
    /\ UNCHANGED <<bindings, aliases, nCalls, nReg>>

\* Make, lines 86-95 for a transient binding: instance := bind.resolver(c),
\* returned without being stored
MakeResolveTransient(p) ==
    /\ proc[p].pc = "resolve"
    /\ ~proc[p].singleton
    /\ nextObj < MaxObj
    /\ nextObj' = nextObj + 1
    /\ proc' = [proc EXCEPT ![p].pc = "done", ![p].instance = nextObj + 1,
                            ![p].ret = nextObj + 1]
    /\ hist' = Returned(hist, proc[p].req, proc[p].abstract, nextObj + 1, TRUE)
    /\ UNCHANGED <<bindings, instances, aliases, nCalls, nReg>>

\* Make, line 86 for a singleton binding: the resolver runs outside any lock
MakeResolveSingleton(p) ==
    /\ proc[p].pc = "resolve"
    /\ proc[p].singleton
    /\ nextObj < MaxObj
    /\ nextObj' = nextObj + 1
    /\ proc' = [proc EXCEPT ![p].pc = "store", ![p].instance = nextObj + 1]
    /\ hist' = [hist EXCEPT ![proc[p].abstract].invs = @ + 1]
    /\ UNCHANGED <<bindings, instances, aliases, nCalls, nReg>>

\* the value Make stores for a singleton: the instance it has just resolved
StoredInstance(p) == proc[p].instance

\* the value Make returns for a singleton: the instance it has just resolved
ReturnedInstance(p) == proc[p].instance

\* a Make that returns a singleton without caching it
MakeStoreNoCache(p) ==
    /\ proc[p].pc = "store"
    /\ proc' = [proc EXCEPT ![p].pc = "done", ![p].ret = ReturnedInstance(p)]
    /\ hist' = Returned(hist, proc[p].req, proc[p].abstract, ReturnedInstance(p), FALSE)
    /\ UNCHANGED <<bindings, instances, aliases, nextObj, nCalls, nReg>>

\* Make, lines 89-95: under the write lock instances[abstract] = instance
MakeStore(p) ==
    /\ proc[p].pc = "store"
    /\ instances' = MapPut(instances, proc[p].abstract, StoredInstance(p))
    /\ proc' = [proc EXCEPT ![p].pc = "done", ![p].ret = ReturnedInstance(p)]
    /\ hist' = Returned(hist, proc[p].req, proc[p].abstract, ReturnedInstance(p), FALSE)
    /\ UNCHANGED <<bindings, aliases, nextObj, nCalls, nReg>>

NoWiring == [op |-> ""]

CallersInit ==
    /\ must = [p \in Procs |-> FALSE]
    /\ wired = NoWiring

\* MustMake, line 100: instance, err := c.Make(abstract)
MustMake(p, abstract) ==
    /\ MakeLookup(p, abstract)
    /\ must' = [must EXCEPT ![p] = TRUE]
    /\ wired' = wired

\* a MustMake that returns nil when Make fails
MustMakeReturnNil(p) ==
    /\ must[p]
    /\ proc[p].pc = "done"
    /\ proc' = [proc EXCEPT ![p] = IdleProc]
    /\ must' = [must EXCEPT ![p] = FALSE]
    /\ UNCHANGED <<bindings, instances, aliases, nextObj, hist, nCalls, nReg, wired>>

\* MustMake, lines 101-104: panic(err) when Make failed, else the instance
MustMakeReturn(p) ==
    /\ must[p]
    /\ proc[p].pc = "done"
    /\ IF proc[p].err
       THEN /\ proc' = [proc EXCEPT ![p].pc = "panic"]
            /\ must' = must
       ELSE /\ proc' = [proc EXCEPT ![p] = IdleProc]
            /\ must' = [must EXCEPT ![p] = FALSE]
    /\ UNCHANGED <<bindings, instances, aliases, nextObj, hist, nCalls, nReg, wired>>

\* the panic of MustMake has unwound the goroutine's stack
MustMakeUnwound(p) ==
    /\ proc[p].pc = "panic"
    /\ proc' = [proc EXCEPT ![p] = IdleProc]
    /\ must' = [must EXCEPT ![p] = FALSE]
    /\ UNCHANGED <<bindings, instances, aliases, nextObj, hist, nCalls, nReg, wired>>

\* the structs handed to Resolve, as the inject tags of their fields ("": a
\* field without the tag); the functions handed to Call, as the type names of
\* their parameters
FieldTags == Names \cup {""}

RECURSIVE SeqsUpTo(_, _)
SeqsUpTo(S, n) ==
    IF n = 0 THEN { <<>> }
    ELSE SeqsUpTo(S, n - 1) \cup
         { Append(q, x) : q \in { r \in SeqsUpTo(S, n - 1) : Len(r) = n - 1 }, x \in S }

Structs == SeqsUpTo(FieldTags, MaxFields) \ { <<>> }

Funcs == SeqsUpTo(Names, MaxFields) \ { <<>> }

\* a value passed to Call by the caller
Param == -2

\* the zero value of a field or parameter
Zero == 0

\* the state a chain of Make calls starts from
MakeState == [instances |-> instances, nextObj |-> nextObj, hist |-> hist,
              value |-> Zero, err |-> FALSE]

\* Resolve, lines 169-191, from field i on: a field without the tag is
\* skipped; a failed Make returns the error at once; else the field is set
RECURSIVE ResolveFields(_, _, _, _)
ResolveFields(tags, i, st, fields) ==
    IF i > Len(tags) THEN [st |-> st, fields |-> fields, err |-> FALSE]
    ELSE IF tags[i] = "" THEN ResolveFields(tags, i + 1, st, fields)
    ELSE LET m == MakeIn(st, tags[i]) IN
         IF m.err THEN [st |-> m, fields |-> fields, err |-> TRUE]
         ELSE ResolveFields(tags, i + 1, m, [fields EXCEPT ![i] = m.value])

\* Call, lines 120-140, from parameter i on: the provided parameters come
\* first; the others are made by type name, or are the zero value
RECURSIVE CallArgs(_, _, _, _, _)
CallArgs(types, nparams, i, st, args) ==
    IF i > Len(types) THEN [st |-> st, fields |-> args, err |-> FALSE]
    ELSE IF i <= nparams
    THEN CallArgs(types, nparams, i + 1, st, [args EXCEPT ![i] = Param])
    ELSE LET m == MakeIn(st, types[i]) IN
         CallArgs(types, nparams, i + 1, m,
                  [args EXCEPT ![i] = IF m.err THEN Zero ELSE m.value])

\* the Make calls that Resolve or Call may issue for these names
Wanted(tags, nparams) == Cardinality({ i \in (nparams + 1)..Len(tags) : tags[i] # "" })

\* the outcome r of a Resolve or Call is recorded and its Make calls take effect
Wire(op, tags, nparams, r) ==
    /\ wired' = [op |-> op, tags |-> tags, nparams |-> nparams,
                 found |-> [i \in 1..Len(tags) |->
                              tags[i] # "" /\ MakeOutcome(tags[i]).kind # "error"],
                 fields |-> r.fields, err |-> r.err]
    /\ instances' = r.st.instances
    /\ nextObj' = r.st.nextObj
    /\ hist' = r.st.hist
    /\ nCalls' = nCalls + Wanted(tags, nparams)
    /\ UNCHANGED <<bindings, aliases, proc, nReg, must>>

\* Container.Resolve(target) for a pointer to a struct with these field tags
Resolve(tags) ==
    /\ nCalls + Wanted(tags, 0) <= MaxCalls
    /\ nextObj + Wanted(tags, 0) <= MaxObj
    /\ Wire("Resolve", tags, 0,
            ResolveFields(tags, 1, MakeState, [i \in 1..Len(tags) |-> Zero]))

\* Container.Call(fn, params...) for a function with these parameter types
Call(types, nparams) ==
    /\ nCalls + Wanted(types, nparams) <= MaxCalls
    /\ nextObj + Wanted(types, nparams) <= MaxObj
    /\ Wire("Call", types, nparams,
            CallArgs(types, nparams, 1, MakeState, [i \in 1..Len(types) |-> Zero]))

\* the caller has taken Make's result; the goroutine may call again
MakeReturn(p) ==
    /\ proc[p].pc = "done"
    /\ proc' = [proc EXCEPT ![p] = IdleProc]
    /\ UNCHANGED <<bindings, instances, aliases, nextObj, hist, nCalls, nReg>>

(***************************************************************************)
(* Paths and route templates                                               *)
(* A path is a sequence of characters; a template is a sequence of         *)
(* characters and parameter tokens {name} / {name?}.                       *)
(***************************************************************************)
ReqTokens == {"{id}", "{k}"}

OptTokens == {"{id?}", "{k?}"}

\* strings.Trim(match, "{}") / strings.Trim(match, "{?}")
TokenName(t) ==
    CASE t \in {"{id}", "{id?}"} -> "id"
      [] t \in {"{k}", "{k?}"} -> "k"
      [] OTHER -> t

NoMatch == [ok |-> FALSE, caps |-> <<>>]

\* the names the first pass of compile appends: the {name} tokens, left to right
RECURSIVE RequiredNames(_)
RequiredNames(path) ==
    IF path = <<>> THEN <<>>
    ELSE (IF Head(path) \in ReqTokens THEN <<TokenName(Head(path))>> ELSE <<>>)
            \o RequiredNames(Tail(path))

\* the names the second pass of compile appends: the {name?} tokens, left to right
RECURSIVE OptionalNames(_)
OptionalNames(path) ==
    IF path = <<>> THEN <<>>
    ELSE (IF Head(path) \in OptTokens THEN <<TokenName(Head(path))>> ELSE <<>>)
            \o OptionalNames(Tail(path))

\* the names of all parameter tokens in the order they stand in the template
RECURSIVE DeclaredNames(_)
DeclaredNames(path) ==
    IF path = <<>> THEN <<>>
    ELSE (IF Head(path) \in ReqTokens \cup OptTokens THEN <<TokenName(Head(path))>> ELSE <<>>)
            \o DeclaredNames(Tail(path))

\* Route.compile: paramNames gets the required names in the first pass and
\* the optional names in the second
CompiledParamNames(path) == RequiredNames(path) \o OptionalNames(path)

\* Route.compile: {name} becomes ([^/]+), {name?} becomes (?:([^/]+))?, every
\* other character stands for itself, and the whole is anchored with ^ and $
CompiledPattern(path) ==
    [i \in 1..Len(path) |->
        IF path[i] \in ReqTokens THEN [t |-> "cap", c |-> ""]
        ELSE IF path[i] \in OptTokens THEN [t |-> "optcap", c |-> ""]
        ELSE [t |-> "lit", c |-> path[i]]]

\* a capture group that takes any characters, separators included
RunAny(s, j) == IF j > Len(s) THEN 0 ELSE Len(s) - j + 1

\* the length of the run of non-separator characters of s that starts at j
RECURSIVE Run(_, _)
Run(s, j) == IF j > Len(s) \/ s[j] = "/" THEN 0 ELSE 1 + Run(s, j + 1)

\* regexp matching of pattern[i..] against s[j..] up to the end of s, with
\* leftmost-first preference (greedy + and ?); the result carries the
\* submatches of the groups of pattern[i..], "" (the empty sequence) for a
\* group that took no part in the match
RECURSIVE MatchFrom(_, _, _, _), TryCapture(_, _, _, _, _)
MatchFrom(pat, i, s, j) ==
    IF i > Len(pat)
    THEN (IF j > Len(s) THEN [ok |-> TRUE, caps |-> <<>>] ELSE NoMatch)
    ELSE CASE pat[i].t = "lit" ->
                IF j <= Len(s) /\ s[j] = pat[i].c THEN MatchFrom(pat, i + 1, s, j + 1)
                ELSE NoMatch
           [] pat[i].t = "cap" -> TryCapture(pat, i, s, j, Run(s, j))
           [] pat[i].t = "optcap" ->
                LET taken == TryCapture(pat, i, s, j, Run(s, j))
                    skipped == MatchFrom(pat, i + 1, s, j)
                IN  IF taken.ok THEN taken
                    ELSE IF skipped.ok
                    THEN [ok |-> TRUE, caps |-> << <<>> >> \o skipped.caps]
                    ELSE NoMatch

TryCapture(pat, i, s, j, k) ==
    IF k < 1 THEN NoMatch
    ELSE LET rest == MatchFrom(pat, i + 1, s, j + k)
         IN  IF rest.ok
             THEN [ok |-> TRUE, caps |-> <<SubSeq(s, j, j + k - 1)>> \o rest.caps]
             ELSE TryCapture(pat, i, s, j, k - 1)

\* Route.pattern.FindStringSubmatch(path): the groups' submatches, or no match
FindStringSubmatch(pattern, path) == MatchFrom(pattern, 1, path, 1)

\* Route.Match, lines 99-104: params[name] = matches[i+1] for every i with a
\* non-empty submatch, in the order of paramNames
RECURSIVE BindParams(_, _, _, _)
BindParams(paramNames, caps, i, params) ==
    IF i > Len(paramNames) THEN params
    ELSE BindParams(paramNames, caps, i + 1,
            IF i <= Len(caps) /\ caps[i] # <<>>
            THEN MapPut(params, paramNames[i], caps[i])
            ELSE params)

\* Route.Match
Match(route, path) ==
    LET matches == FindStringSubmatch(route.pattern, path)
    IN  IF ~matches.ok THEN [matched |-> FALSE, params |-> EmptyMap]
        ELSE [matched |-> TRUE,
              params |-> BindParams(route.paramNames, matches.caps, 1, EmptyMap)]

(***************************************************************************)
(* RateLimitMiddleware                                                     *)
(***************************************************************************)
\* client addresses (ctx.IP())
IPs == {"ip1", "ip2"}

IdleReq ==
    [pc |-> "idle", ip |-> "", t |-> 0, c |-> 0, tmp |-> 0, win |-> 0, k |-> 0,
     first |-> FALSE, newWin |-> FALSE]

\* history of one client: id = number of windows opened so far (0: none),
\* end = the reset time of the current window, seen = requests that entered
\* in the current window, passed = those of them passed downstream
NoWindow == [id |-> 0, end |-> 0, seen |-> 0, passed |-> 0]

NoRequest ==
    [done |-> FALSE, ip |-> "", t |-> 0, k |-> 0, first |-> FALSE, newWin |-> FALSE,
     status |-> 0, calledNext |-> FALSE, client |-> [requests |-> 0, resetTime |-> 0]]

RateInit ==
    /\ rlOn = FALSE
    /\ quota = 0
    /\ clients = EmptyMap
    /\ cobjs = <<>>
    /\ now = 0
    /\ rq = [g \in Procs |-> IdleReq]
    /\ rwin = [ip \in IPs |-> NoWindow]
    /\ nReqs = 0
    /\ last = NoRequest

\* RateLimitMiddleware(requestsPerMinute): clients := make(map[string]*client)
RateLimit(requestsPerMinute) ==
    /\ ~rlOn
    /\ rlOn' = TRUE
    /\ quota' = requestsPerMinute
    /\ UNCHANGED <<clients, cobjs, now, rq, rwin, nReqs, last>>

\* time passes
Tick ==
    /\ rlOn
    /\ now < MaxTime
    /\ now' = now + 1
    /\ UNCHANGED <<rlOn, quota, clients, cobjs, rq, rwin, nReqs, last>>

\* the window a request entering now falls into: the client's current one,
\* or a new one when there is none or its reset time has passed
EnterWindow(w) ==
    IF w.id = 0 \/ now > w.end
    THEN [id |-> w.id + 1, end |-> now + Window, seen |-> 1, passed |-> 0]
    ELSE [w EXCEPT !.seen = @ + 1]

\* lines 246-250: ip := ctx.IP(); now := time.Now(); c, exists := clients[ip]
RLBegin(g, ip) ==
    /\ rlOn
    /\ rq[g].pc = "idle"
    /\ nReqs < MaxReqs
    /\ nReqs' = nReqs + 1
    /\ rwin' = [rwin EXCEPT ![ip] = EnterWindow(@)]
    /\ rq' = [rq EXCEPT ![g] =
                [pc |-> IF ip \in DOMAIN clients THEN "check" ELSE "insert",
                 ip |-> ip, t |-> now,
                 c |-> IF ip \in DOMAIN clients THEN clients[ip] ELSE 0,
                 tmp |-> 0, win |-> rwin'[ip].id, k |-> rwin'[ip].seen,
                 first |-> rwin[ip].id = 0,
                 newWin |-> rwin'[ip].id # rwin[ip].id]]
    /\ UNCHANGED <<rlOn, quota, clients, cobjs, now, last>>

\* the request of goroutine g leaves the middleware
Left(g, status, calledNext, client) ==
    [done |-> TRUE, ip |-> rq[g].ip, t |-> rq[g].t, k |-> rq[g].k,
     first |-> rq[g].first, newWin |-> rq[g].newWin, status |-> status,
     calledNext |-> calledNext, client |-> client]

\* next(ctx) is called for the request of goroutine g
PassedDownstream(g) ==
    [rwin EXCEPT ![rq[g].ip].passed =
        IF rwin[rq[g].ip].id = rq[g].win THEN @ + 1 ELSE @]

\* a sliding window: every request of the client moves the reset time
ExpireSliding(c, t) ==
    IF t > c.resetTime THEN [requests |-> 0, resetTime |-> t + Window]
    ELSE [c EXCEPT !.resetTime = t + Window]

\* lines 251-254: a client whose reset time has passed starts a new window
Expire(c, t) ==
    IF t > c.resetTime THEN [requests |-> 0, resetTime |-> t + Window] ELSE c

\* line 256: c.requests >= requestsPerMinute
OverQuota(c) == c.requests >= quota

\* lines 251-260: the reset, then the quota check; over quota the request is
\* answered 429 and next is not called
RLCheck(g) ==
    /\ rq[g].pc = "check"
    /\ LET c == Expire(cobjs[rq[g].c], rq[g].t) IN
        /\ cobjs' = [cobjs EXCEPT ![rq[g].c] = c]
        /\ IF OverQuota(c)
           THEN /\ rq' = [rq EXCEPT ![g] = IdleReq]
                /\ last' = Left(g, 429, FALSE, c)
           ELSE /\ rq' = [rq EXCEPT ![g].pc = "load"]
                /\ last' = last
    /\ UNCHANGED <<rlOn, quota, clients, now, rwin, nReqs>>

\* line 262, c.requests++: the read
RLLoad(g) ==
    /\ rq[g].pc = "load"
    /\ rq' = [rq EXCEPT ![g].pc = "store", ![g].tmp = cobjs[rq[g].c].requests]
    /\ UNCHANGED <<rlOn, quota, clients, cobjs, now, rwin, nReqs, last>>

\* line 262, c.requests++: the write; then line 270, next(ctx)
RLStore(g) ==
    /\ rq[g].pc = "store"
    /\ cobjs' = [cobjs EXCEPT ![rq[g].c].requests = rq[g].tmp + 1]
    /\ rwin' = PassedDownstream(g)
    /\ last' = Left(g, 200, TRUE, cobjs'[rq[g].c])
    /\ rq' = [rq EXCEPT ![g] = IdleReq]
    /\ UNCHANGED <<rlOn, quota, clients, now, nReqs>>

\* lines 264-267: clients[ip] = &client{requests: 1, resetTime: now + minute};
\* then line 270, next(ctx)
RLInsert(g) ==
    /\ rq[g].pc = "insert"
    /\ cobjs' = Append(cobjs, [requests |-> 1, resetTime |-> rq[g].t + Window])
    /\ clients' = MapPut(clients, rq[g].ip, Len(cobjs) + 1)
    /\ rwin' = PassedDownstream(g)
    /\ last' = Left(g, 200, TRUE, [requests |-> 1, resetTime |-> rq[g].t + Window])
    /\ rq' = [rq EXCEPT ![g] = IdleReq]
    /\ UNCHANGED <<rlOn, quota, now, nReqs>>

\* no request is inside the middleware
RateQuiet == \A g \in Procs : rq[g].pc = "idle"

(***************************************************************************)
(* The built-in middleware around a final handler                          *)
(* Strings are sequences of pieces, so that prefixes and substrings are    *)
(* computed and not assumed.                                               *)
(***************************************************************************)
Builtins == {"cors", "recovery", "logger", "auth", "jsononly", "trim"}

BMethods == {"GET", "POST", "PUT", "PATCH", "DELETE", "OPTIONS"}

BPaths == { <<"/">>, <<"/", "a">>, <<"/", "a", "/">> }

\* values of the Authorization request header
AuthHeaders == { <<>>, <<"Bearer ">>, <<"Bearer ", "t">> }

\* values of the auth_token cookie
AuthCookies == { <<>>, <<"c">> }

\* values of the Content-Type request header
ContentTypes == { <<>>, <<"application/json", "; charset=utf-8">>, <<"text/plain">> }

\* what the final handler does: return nil, return an error, panic
Downstreams == {"ok", "error", "panic"}

CORSHeaders ==
    {"Access-Control-Allow-Origin", "Access-Control-Allow-Methods",
     "Access-Control-Allow-Headers", "Access-Control-Allow-Credentials"}

NoServed == [served |-> FALSE]

BuiltinInit ==
    /\ chain = <<>>
    /\ booted = FALSE
    /\ bres = NoServed

\* Application.Use(mw) with one of the built-in middleware, each used once
BUse(mw) ==
    /\ ~bres.served
    /\ \A i \in 1..Len(chain) : chain[i] # mw
    /\ Len(chain) - (IF booted THEN 2 ELSE 0) < MaxChain
    /\ chain' = Append(chain, mw)
    /\ UNCHANGED <<booted, bres>>

\* Bootstrap: NewApplication, Use(RecoveryMiddleware()), Use(LoggerMiddleware())
Bootstrap ==
    /\ ~bres.served
    /\ ~booted
    /\ chain = <<>>
    /\ chain' = <<"recovery", "logger">>
    /\ booted' = TRUE
    /\ UNCHANGED bres

\* what a handler has not returned yet
NoOut ==
    [returned |-> FALSE, panic |-> FALSE, ret |-> "nil", status |-> 0,
     headers |-> {}, body |-> EmptyMap, location |-> <<>>, store |-> EmptyMap]

\* what a handler hands back to its caller: a panic or a returned error, and
\* the response and store as they are at that moment
Outcome(c) ==
    [returned |-> TRUE, panic |-> c.panic, ret |-> c.ret, status |-> c.status,
     headers |-> c.headers, body |-> c.body, location |-> c.location,
     store |-> c.store]

\* the Context of a request before the chain runs; entered[i] counts the calls
\* of the i-th handler of the chain, the final handler being the last, and
\* out[i] is what its last call handed back
BContext(method, path, auth, cookie, ctype, down) ==
    [served |-> TRUE, method |-> method, path |-> path, auth |-> auth,
     cookie |-> cookie, ctype |-> ctype, down |-> down,
     status |-> 200, headers |-> {}, body |-> EmptyMap, location |-> <<>>,
     store |-> EmptyMap, ret |-> "nil", panic |-> FALSE, logs |-> <<>>,
     entered |-> [i \in 1..(Len(chain) + 1) |-> 0],
     out |-> [i \in 1..(Len(chain) + 1) |-> NoOut]]

Enter(c, i) == [c EXCEPT !.entered[i] = @ + 1]

\* Context.AbortWithJSON(code, Map{"error": message})
AbortWithJSON(c, code, message) ==
    [c EXCEPT !.status = code, !.body = [error |-> message], !.ret = "nil"]

\* Context.Redirect(url, code)
Redirect(c, url, code) ==
    [c EXCEPT !.status = code, !.location = url, !.ret = "nil"]

\* strings.TrimPrefix(token, "Bearer ")
TrimPrefix(token, prefix) ==
    IF Len(token) >= 1 /\ token[1] = prefix THEN Tail(token) ELSE token

\* strings.Contains(s, piece)
Contains(s, piece) == \E i \in 1..Len(s) : s[i] = piece

\* validateToken: the empty token is rejected, any other yields the user
ValidateToken(token) ==
    IF token = <<>> THEN [user |-> "", err |-> TRUE]
                    ELSE [user |-> "user1", err |-> FALSE]

\* the final handler (Router.Handle with the route's handler)
FinalHandler(c) ==
    CASE c.down = "ok"    -> [c EXCEPT !.body = [data |-> "ok"], !.ret = "nil"]
      [] c.down = "error" -> [c EXCEPT !.ret = "err"]
      [] c.down = "panic" -> [c EXCEPT !.panic = TRUE]

RECURSIVE RunChain(_, _)

\* a CORS middleware that hands the preflight request on as well
CORSPassPreflight(c, i) ==
    LET c1 == [c EXCEPT !.headers = @ \cup CORSHeaders] IN
    RunChain(i + 1, IF c1.method = "OPTIONS" THEN [c1 EXCEPT !.status = 204] ELSE c1)

\* a Recovery middleware that answers 500 with the cause of the panic
RecoveryLeakCause(c, i) ==
    LET r == RunChain(i + 1, c) IN
    IF r.panic
    THEN [r EXCEPT !.panic = FALSE, !.status = 500,
                   !.body = [error |-> "panic: cause"], !.ret = "nil"]
    ELSE r

\* an Auth middleware that accepts every token that is present
AuthNoValidation(c, i) ==
    LET token == IF c.auth = <<>> THEN c.cookie ELSE c.auth IN
    IF token = <<>> THEN AbortWithJSON(c, 401, "Unauthorized")
    ELSE RunChain(i + 1, [c EXCEPT !.store = MapPut(@, "user", "user1")])

\* a JSONOnly middleware that checks POST requests only
JSONOnlyPost(c, i) ==
    IF c.method = "POST" /\ ~Contains(c.ctype, "application/json")
    THEN AbortWithJSON(c, 415, "Content-Type must be application/json")
    ELSE RunChain(i + 1, c)

\* a TrimTrailingSlash middleware that redirects the root path as well
TrimTrailingSlashRoot(c, i) ==
    IF Len(c.path) >= 1 /\ c.path[Len(c.path)] = "/"
    THEN Redirect(c, SubSeq(c.path, 1, Len(c.path) - 1), 301)
    ELSE RunChain(i + 1, c)

\* CORSMiddleware: the headers are set; OPTIONS is answered 204 here
CORSMiddleware(c, i) ==
    LET c1 == [c EXCEPT !.headers = @ \cup CORSHeaders] IN
    IF c1.method = "OPTIONS"
    THEN [c1 EXCEPT !.status = 204, !.ret = "nil"]
    ELSE RunChain(i + 1, c1)

\* RecoveryMiddleware: the deferred recover turns a panic of next into a 500
\* response; the function then returns the zero error
RecoveryMiddleware(c, i) ==
    LET r == RunChain(i + 1, c) IN
    IF r.panic
    THEN [r EXCEPT !.panic = FALSE, !.status = 500,
                   !.body = [error |-> "Internal Server Error"], !.ret = "nil"]
    ELSE r

\* LoggerMiddleware: the record is written after next has returned; a panic
\* of next unwinds through the function before anything is written
LoggerMiddleware(c, i) ==
    LET r == RunChain(i + 1, c) IN
    IF r.panic
    THEN r
    ELSE [r EXCEPT !.logs = Append(@, [method |-> c.method, path |-> c.path,
                                       status |-> r.status, err |-> r.ret])]

\* AuthMiddleware
AuthMiddleware(c, i) ==
    LET token == IF c.auth = <<>> THEN c.cookie ELSE c.auth
        v == ValidateToken(TrimPrefix(token, "Bearer "))
    IN  IF token = <<>> THEN AbortWithJSON(c, 401, "Unauthorized")
        ELSE IF v.err THEN AbortWithJSON(c, 401, "Invalid token")
        ELSE RunChain(i + 1, [c EXCEPT !.store = MapPut(@, "user", v.user)])

\* JSONOnlyMiddleware
JSONOnlyMiddleware(c, i) ==
    IF /\ c.method # "GET" /\ c.method # "DELETE"
       /\ ~Contains(c.ctype, "application/json")
    THEN AbortWithJSON(c, 415, "Content-Type must be application/json")
    ELSE RunChain(i + 1, c)

\* TrimTrailingSlashMiddleware
TrimTrailingSlashMiddleware(c, i) ==
    IF Len(c.path) > 1 /\ c.path[Len(c.path)] = "/"
    THEN Redirect(c, SubSeq(c.path, 1, Len(c.path) - 1), 301)
    ELSE RunChain(i + 1, c)

\* the i-th handler of the composed chain called with Context c
RunChain(i, c) ==
    LET c1 == Enter(c, i)
        r == IF i > Len(chain) THEN FinalHandler(c1)
             ELSE CASE chain[i] = "cors"     -> CORSMiddleware(c1, i)
                    [] chain[i] = "recovery" -> RecoveryMiddleware(c1, i)
                    [] chain[i] = "logger"   -> LoggerMiddleware(c1, i)
                    [] chain[i] = "auth"     -> AuthMiddleware(c1, i)
                    [] chain[i] = "jsononly" -> JSONOnlyMiddleware(c1, i)
                    [] chain[i] = "trim"     -> TrimTrailingSlashMiddleware(c1, i)
    IN  [r EXCEPT !.out[i] = Outcome(r)]

\* buildHandler: one request runs through the whole chain
BServe(method, path, auth, cookie, ctype, down) ==
    /\ ~bres.served
    /\ bres' = RunChain(1, BContext(method, path, auth, cookie, ctype, down))
    /\ UNCHANGED <<chain, booted>>

(***************************************************************************)
(* The matcher on its own: a template is compiled, then matched against    *)
(* the path built by substituting a literal for each of its parameters.    *)
(***************************************************************************)
\* what a segment of a template may hold
SegTokens == {"u", "{id}", "{k}", "{id?}", "{k?}"}

\* the templates of n segments, each "/" followed by one token
RECURSIVE TemplatesOf(_)
TemplatesOf(n) ==
    IF n = 0 THEN { <<>> }
    ELSE { t \o <<"/", tok>> : t \in TemplatesOf(n - 1), tok \in SegTokens }

\* templates of 1..MaxSegs segments whose parameter names are all different
MatchTemplates ==
    { t \in UNION { TemplatesOf(n) : n \in 1..MaxSegs } :
        \A i, j \in 1..Len(DeclaredNames(t)) :
            DeclaredNames(t)[i] = DeclaredNames(t)[j] => i = j }

\* non-empty literals without a separator
Literals == { <<"x">>, <<"y", "z">>, <<"u">> }

NameSet(t) == { DeclaredNames(t)[i] : i \in 1..Len(DeclaredNames(t)) }

\* the path obtained from a template by putting values[name] in the place of
\* {name} and of {name?}
RECURSIVE Substitute(_, _)
Substitute(path, values) ==
    IF path = <<>> THEN <<>>
    ELSE (IF Head(path) \in ReqTokens \cup OptTokens
          THEN values[TokenName(Head(path))]
          ELSE <<Head(path)>>) \o Substitute(Tail(path), values)

MatchInit ==
    /\ mRoute = [path |-> <<>>, pattern |-> <<>>, paramNames |-> <<>>]
    /\ mValues = EmptyMap
    /\ mResult = [matched |-> FALSE, params |-> EmptyMap]
    /\ mTried = [path |-> <<>>, extra |-> "none"]
    /\ mpc = "idle"

\* Router.Add, lines 38-46: the Route is built and compiled
MCompile(t) ==
    /\ mpc = "idle"
    /\ mRoute' = [path |-> t, pattern |-> CompiledPattern(t),
                  paramNames |-> CompiledParamNames(t)]
    /\ mpc' = "compiled"
    /\ UNCHANGED <<mValues, mResult, mTried>>

\* Route.Match on the template with values substituted
MMatch(values) ==
    /\ mpc = "compiled"
    /\ mValues' = values
    /\ mResult' = Match(mRoute, Substitute(mRoute.path, values))
    /\ mTried' = [path |-> Substitute(mRoute.path, values), extra |-> "none"]
    /\ mpc' = "matched"
    /\ UNCHANGED mRoute

\* what may stand in the place of a parameter of a tried path: a literal,
\* nothing (the segment is left out), or two segments
TryLiterals == Literals \cup { <<>>, <<"x", "/", "y">> }

\* a tried path is the substituted template alone, or with one more segment
\* before or after it
Extras == {"none", "lead", "trail"}

ExtraSegment == <<"/", "x">>

Extend(path, extra) ==
    CASE extra = "lead" -> ExtraSegment \o path
      [] extra = "trail" -> path \o ExtraSegment
      [] OTHER -> path

\* Route.Match on a path that need not fit the template
MTry(values, extra) ==
    LET path == Extend(Substitute(mRoute.path, values), extra)
    IN  /\ mpc = "compiled"
        /\ mValues' = values
        /\ mResult' = Match(mRoute, path)
        /\ mTried' = [path |-> path, extra |-> extra]
        /\ mpc' = "tried"
        /\ UNCHANGED mRoute

(***************************************************************************)
(* Router and Application                                                  *)
(***************************************************************************)
\* methods handed to Router.Add (any case) and methods of inbound requests
AddMethods == {"GET", "post"}

ReqMethods == {"GET", "PUT"}

\* strings.ToUpper
ToUpper(m) ==
    CASE m = "get" -> "GET"
      [] m = "post" -> "POST"
      [] OTHER -> m

\* the path templates handed to Router.Add
Templates == { <<"/", "u", "/", "{id}">>, <<"/", "u", "/", "m">> }

\* the prefixes handed to Router.Group
Prefixes == { <<"/", "g">> }

\* the paths of inbound requests
ReqPaths ==
    { <<"/", "u", "/", "m">>, <<"/", "g", "/", "u", "/", "m">>,
      <<"/", "g", "/", "g", "/", "u", "/", "m">>, <<"/", "x">> }

RootRouter == 1

\* Every registered function is a distinct function, named after the place
\* where it is registered: the k-th global middleware, the k-th middleware
\* of router r, the k-th middleware of the i-th route of a bucket, and the
\* handler of the i-th route of a bucket.
AppMwId(k) == [at |-> "app", r |-> 0, m |-> "", i |-> 0, k |-> k]

RouterMwId(r, k) == [at |-> "router", r |-> r, m |-> "", i |-> 0, k |-> k]

RouteMwId(method, i, k) == [at |-> "route", r |-> 0, m |-> method, i |-> i, k |-> k]

HandlerId(method, i) == [at |-> "handler", r |-> 0, m |-> method, i |-> i, k |-> 0]

BucketOf(method) == IF method \in DOMAIN routes THEN routes[method] ELSE <<>>

NoResp == [served |-> FALSE]

\* NewRouter / NewApplication
RouterInit ==
    /\ routes = EmptyMap
    /\ routers = << [prefix |-> <<>>, middleware |-> <<>>, parent |-> 0, given |-> <<>>] >>
    /\ appMw = <<>>
    /\ nSetup = 0
    /\ resp = NoResp

Serving == resp.served

\* Router.Add that stores the path as given, without the router's prefix
AddUnprefixed(r, method, path, handler) ==
    LET route == [method |-> ToUpper(method), path |-> path, handler |-> handler,
                  middleware |-> <<>>, name |-> "",
                  pattern |-> CompiledPattern(path),
                  paramNames |-> CompiledParamNames(path), via |-> r, own |-> path]
        bucket == BucketOf(route.method)
    IN  /\ ~Serving
        /\ nSetup < MaxSetup
        /\ nSetup' = nSetup + 1
        /\ routes' = MapPut(routes, route.method, Append(bucket, route))
        /\ UNCHANGED <<routers, appMw, resp>>

\* Router.Add that puts the new route at the head of its bucket
AddFirst(r, method, path, handler) ==
    LET full == routers[r].prefix \o path
        route == [method |-> ToUpper(method), path |-> full, handler |-> handler,
                  middleware |-> <<>>, name |-> "",
                  pattern |-> CompiledPattern(full),
                  paramNames |-> CompiledParamNames(full), via |-> r, own |-> path]
        bucket == BucketOf(route.method)
    IN  /\ ~Serving
        /\ nSetup < MaxSetup
        /\ nSetup' = nSetup + 1
        /\ routes' = MapPut(routes, route.method, <<route>> \o bucket)
        /\ UNCHANGED <<routers, appMw, resp>>

\* Router.Add through router r (the root or a group); the route keeps no
\* reference to r: via only records where it was registered, and own the
\* path that was handed to Add
Add(r, method, path, handler) ==
    LET full == routers[r].prefix \o path
        route == [method |-> ToUpper(method), path |-> full, handler |-> handler,
                  middleware |-> <<>>, name |-> "",
                  pattern |-> CompiledPattern(full),
                  paramNames |-> CompiledParamNames(full), via |-> r, own |-> path]
        bucket == BucketOf(route.method)
    IN  /\ ~Serving
        /\ nSetup < MaxSetup
        /\ nSetup' = nSetup + 1
        /\ routes' = MapPut(routes, route.method, Append(bucket, route))
        /\ UNCHANGED <<routers, appMw, resp>>

\* Route.Middleware on the i-th route of a bucket
RouteMiddleware(method, i, mw) ==
    /\ ~Serving
    /\ nSetup < MaxSetup
    /\ method \in DOMAIN routes
    /\ i \in 1..Len(routes[method])
    /\ nSetup' = nSetup + 1
    /\ routes' = [routes EXCEPT ![method][i].middleware = Append(@, mw)]
    /\ UNCHANGED <<routers, appMw, resp>>

\* Router.Middleware on router r (the root or a group)
RouterMiddleware(r, mw) ==
    /\ ~Serving
    /\ nSetup < MaxSetup
    /\ r \in 1..Len(routers)
    /\ nSetup' = nSetup + 1
    /\ routers' = [routers EXCEPT ![r].middleware = Append(@, mw)]
    /\ UNCHANGED <<routes, appMw, resp>>

\* Router.Group on router r: a new Router sharing the route table; given
\* records the prefix that was handed to Group
Group(r, prefix) ==
    /\ ~Serving
    /\ nSetup < MaxSetup
    /\ nSetup' = nSetup + 1
    /\ r \in 1..Len(routers)
    /\ routers' = Append(routers,
            [prefix |-> routers[r].prefix \o prefix, middleware |-> <<>>, parent |-> r,
             given |-> prefix])
    /\ UNCHANGED <<routes, appMw, resp>>

\* Application.Use
Use(mw) ==
    /\ ~Serving
    /\ nSetup < MaxSetup
    /\ nSetup' = nSetup + 1
    /\ appMw' = Append(appMw, mw)
    /\ UNCHANGED <<routes, routers, resp>>

\* what a route handler returns: nil ("") or an error
HandlerReturns == {"", "boom"}

\* what the registered functions do in one request: the value the route
\* handler returns, and the place (none, or the route's list) whose
\* middleware answer an error of their next themselves and return nil
Behaviours ==
    { [ret |-> "", conv |-> "none"], [ret |-> "boom", conv |-> "none"],
      [ret |-> "boom", conv |-> "route"] }

\* NewContext: empty params and store; the response starts as 200 with no
\* body.  The other fields observe the request: log is the sequence of
\* functions entered and left, err the value the last finished HandlerFunc
\* returned, seen the value each middleware got back from its next, and
\* chainRet the value the chain composed by Router.Handle returned, and
\* tested the positions of the routes Router.Handle called Match on; stopAt
\* is the position, in the order of entry, of the middleware that answers
\* the request itself instead of calling its next (0: every one calls next)
NewContext(method, path) ==
    [served |-> TRUE, method |-> method, path |-> path, params |-> EmptyMap,
     route |-> 0, store |-> EmptyMap, status |-> 200, body |-> EmptyMap,
     log |-> <<>>, err |-> "", seen |-> <<>>, chainRet |-> "", tested |-> <<>>,
     does |-> [ret |-> "", conv |-> "none"], stopAt |-> 0]

\* ctx.Status(404).JSON(Map{"error": "Not Found"})
NotFound(ctx) == [ctx EXCEPT !.status = 404, !.body = [error |-> "Not Found"]]

\* Context.Error(message, code): the failure envelope of the response helpers
ErrorEnvelope(ctx, message, code) ==
    [ctx EXCEPT !.status = code, !.body = [success |-> FALSE, error |-> message]]

\* a route handler: a function that answers 200
RouteHandler(id) == [kind |-> "handler", id |-> id, next |-> 0]

\* Router.Handle of router r used as a HandlerFunc; its loop over the bucket
\* starts behind position from
RouterHandler(r) == [kind |-> "router", id |-> r, next |-> 0, from |-> 0]

\* middleware[i](handler): the handler that runs mw around next
Wrap(mw, next) == [kind |-> "mw", id |-> mw, next |-> next]

\* a fold from first to last, which leaves the last middleware outermost
RECURSIVE ApplyMiddlewareForward(_, _, _)
ApplyMiddlewareForward(middleware, i, handler) ==
    IF i < 1 THEN handler
    ELSE Wrap(middleware[i], ApplyMiddlewareForward(middleware, i - 1, handler))

\* for i := len(middleware) - 1; i >= 0; i-- { handler = middleware[i](handler) }
RECURSIVE ApplyMiddleware(_, _, _)
ApplyMiddleware(middleware, i, handler) ==
    IF i < 1 THEN handler
    ELSE ApplyMiddleware(middleware, i - 1, Wrap(middleware[i], handler))

\* the last route of the bucket, from position i on, that matches path (0: none)
RECURSIVE FindLastRoute(_, _, _)
FindLastRoute(bucket, i, path) ==
    IF i > Len(bucket) THEN 0
    ELSE LET later == FindLastRoute(bucket, i + 1, path)
         IN  IF later # 0 THEN later
             ELSE IF Match(bucket[i], path).matched THEN i ELSE 0

\* for _, route := range routes: the first route, from position i on, that
\* matches path (0: none)
RECURSIVE FindRoute(_, _, _)
FindRoute(bucket, i, path) ==
    IF i > Len(bucket) THEN 0
    ELSE IF Match(bucket[i], path).matched THEN i
    ELSE FindRoute(bucket, i + 1, path)

Event(e, id) == [e |-> e, id |-> id]

\* a route handler: it answers 200 and returns nil, or returns an error
HandlerRun(id, ctx) ==
    IF ctx.does.ret = ""
    THEN [ctx EXCEPT !.log = Append(@, Event("handler", id)), !.status = 200,
                     !.body = [success |-> TRUE], !.err = ""]
    ELSE [ctx EXCEPT !.log = Append(@, Event("handler", id)), !.err = ctx.does.ret]

\* the middleware id answers the error of its next itself and returns nil
Converts(id, ctx) == ctx.does.conv = id.at

\* the after part of middleware id: it returns what its next returned,
\* unless it converts the error
MiddlewareReturn(id, left) ==
    [left EXCEPT !.log = Append(@, Event("after", id)),
                 !.seen = Append(@, [id |-> id, err |-> left.err]),
                 !.err = IF Converts(id, left) /\ left.err # "" THEN "" ELSE left.err,
                 !.status = IF Converts(id, left) /\ left.err # "" THEN 500 ELSE @]

\* the number of middleware entered so far in this request
Entered(ctx) == Cardinality({k \in 1..Len(ctx.log) : ctx.log[k].e = "before"})

\* the middleware entered as the ctx.stopAt-th returns without calling next
Stops(entered) == entered.stopAt # 0 /\ Entered(entered) = entered.stopAt

\* a middleware that answers the request and calls its next all the same
ShortCircuitCallsNext(id, entered, left) == MiddlewareReturn(id, left)

\* a middleware that short-circuits: it answers (as AuthMiddleware does with
\* ctx.AbortWithJSON(401, ...)) and returns its own value; left is what a
\* call of its next would hand back
ShortCircuit(id, entered, left) ==
    [entered EXCEPT !.log = Append(@, Event("return", id)),
                    !.status = 401, !.body = [error |-> "Unauthorized"],
                    !.err = entered.does.ret]

\* Router.Handle that drops the error of the composed chain
HandleReturnNil(done) == [done EXCEPT !.chainRet = done.err, !.err = ""]

\* return handler(ctx) (line 141): Handle returns what the composed chain
\* returned
HandleReturn(done) == [done EXCEPT !.chainRet = done.err]

\* a loop that goes on to the later routes when the chain returned an error
LoopGoesOnAfterError(done) == done.err # ""

\* line 141 returns from Handle inside the loop: no later route is looked at
LoopGoesOn(done) == FALSE

\* calling a HandlerFunc with a Context: a route handler answers, a
\* middleware runs its before part, its next and its after part, and
\* Router.Handle dispatches (lines 110-148)
RECURSIVE Invoke(_, _)
Invoke(h, ctx) ==
    CASE h.kind = "handler" -> HandlerRun(h.id, ctx)
      [] h.kind = "mw" ->
            LET entered == [ctx EXCEPT !.log = Append(@, Event("before", h.id))]
                left == Invoke(h.next, entered)
            IN  IF Stops(entered) THEN ShortCircuit(h.id, entered, left)
                ELSE MiddlewareReturn(h.id, left)
      [] h.kind = "router" ->
            IF ctx.method \notin DOMAIN routes THEN NotFound(ctx)
            ELSE LET bucket == routes[ctx.method]
                     i == FindRoute(bucket, h.from + 1, ctx.path)
                     tried == [ctx EXCEPT !.tested =
                                  @ \o [k \in 1..((IF i = 0 THEN Len(bucket) ELSE i) - h.from)
                                          |-> h.from + k]]
                 IN  IF i = 0 THEN NotFound(tried)
                     ELSE LET route == bucket[i]
                              bound == [tried EXCEPT !.params = Match(route, ctx.path).params,
                                                     !.route = i]
                              inner == ApplyMiddleware(route.middleware,
                                            Len(route.middleware), RouteHandler(route.handler))
                              outer == ApplyMiddleware(routers[h.id].middleware,
                                            Len(routers[h.id].middleware), inner)
                              done == HandleReturn(Invoke(outer, bound))
                          IN  IF LoopGoesOn(done)
                              THEN Invoke([h EXCEPT !.from = i], done)
                              ELSE done

\* a request handler that calls Router.Handle without the global middleware
ServeUnwrapped(method, path, does) ==
    /\ ~Serving
    /\ resp' = Invoke(RouterHandler(RootRouter),
                      [NewContext(method, path) EXCEPT !.does = does])
    /\ UNCHANGED <<routes, routers, appMw, nSetup>>

\* Application.buildHandler: a fresh Context, Router.Handle of the root
\* wrapped in the global middleware, run once; does is what the registered
\* functions do in this request.  A behaviour follows one request: a later
\* one would start from a fresh Context and the same tables.
Serve(method, path, does) ==
    /\ ~Serving
    /\ resp' = Invoke(ApplyMiddleware(appMw, Len(appMw), RouterHandler(RootRouter)),
                      [NewContext(method, path) EXCEPT !.does = does])
    /\ UNCHANGED <<routes, routers, appMw, nSetup>>

\* the values a short-circuiting middleware returns: nil or an error
StopReturns == {"", "boom"}

\* a request in which the middleware entered as the at-th short-circuits and
\* returns ret; the others hand back what their next returned.  A request
\* that enters fewer than at middleware is one of Serve
ServeStopping(method, path, ret, at) ==
    LET out == Invoke(ApplyMiddleware(appMw, Len(appMw), RouterHandler(RootRouter)),
                      [NewContext(method, path) EXCEPT
                            !.does = [ret |-> ret, conv |-> "none"], !.stopAt = at])
    IN  /\ ~Serving
        /\ Entered(out) >= at
        /\ resp' = out
        /\ UNCHANGED <<routes, routers, appMw, nSetup>>

(***************************************************************************)
(* The Contexts of concurrently served requests                            *)
(* fasthttp calls the request handler of buildHandler on one goroutine per *)
(* request.  The n-th request asks for /u/ followed by n characters and    *)
(* its handler stores n, so that a value tells which request wrote it.     *)
(***************************************************************************)
\* the route of the requests
UserRoute ==
    [pattern |-> CompiledPattern(<<"/", "u", "/", "{id}">>),
     paramNames |-> CompiledParamNames(<<"/", "u", "/", "{id}">>)]

\* the last segment of the path of the n-th request
Payload(n) == [i \in 1..n |-> "x"]

PathOf(n) == <<"/", "u", "/">> \o Payload(n)

NothingRead == [read |-> FALSE, k |-> 0, id |-> <<>>]

IdleRequest == [pc |-> "idle", n |-> 0, ctx |-> 0, first |-> 0, got |-> NothingRead]

ContextInit ==
    /\ contexts = <<>>
    /\ reqs = [g \in Procs |-> IdleRequest]

\* a Context taken from a pool of finished ones, with its maps as they were
PooledContext == IF contexts = <<>> THEN Len(contexts) + 1 ELSE 1

\* NewContext (lines 21-28): the address of a new Context
AllocContext == Len(contexts) + 1

\* buildHandler: fctx := NewContext(ctx, a); first is the Context as the
\* request finds it
CtxNew(g) ==
    LET c == AllocContext
        heap == IF c > Len(contexts)
                THEN Append(contexts, [params |-> EmptyMap, store |-> EmptyMap])
                ELSE contexts
    IN  /\ reqs[g].pc = "idle"
        /\ Len(contexts) < MaxCtx
        /\ contexts' = heap
        /\ reqs' = [reqs EXCEPT ![g] = [pc |-> "created", n |-> Len(contexts) + 1,
                                        ctx |-> c, first |-> heap[c], got |-> NothingRead]]

\* Router.Handle: ctx.params = params (line 125)
CtxBindParams(g) ==
    /\ reqs[g].pc = "created"
    /\ contexts' = [contexts EXCEPT ![reqs[g].ctx].params =
                        Match(UserRoute, PathOf(reqs[g].n)).params]
    /\ reqs' = [reqs EXCEPT ![g].pc = "handling"]

\* Context.Set("k", n) from the handler or a middleware
CtxSet(g) ==
    /\ reqs[g].pc = "handling"
    /\ contexts' = [contexts EXCEPT ![reqs[g].ctx].store = MapPut(@, "k", reqs[g].n)]
    /\ UNCHANGED reqs

\* Context.Get("k") and Context.Param("id"): got is what they returned
\* (nil and "" when there is no entry)
CtxGet(g) ==
    LET c == contexts[reqs[g].ctx]
    IN  /\ reqs[g].pc = "handling"
        /\ reqs' = [reqs EXCEPT ![g].got =
                        [read |-> TRUE,
                         k |-> IF "k" \in DOMAIN c.store THEN c.store["k"] ELSE 0,
                         id |-> IF "id" \in DOMAIN c.params THEN c.params["id"] ELSE <<>>]]
        /\ UNCHANGED contexts

\* the handler chain returns: nothing refers to the Context any more
CtxDone(g) ==
    /\ reqs[g].pc = "handling"
    /\ reqs' = [reqs EXCEPT ![g] = IdleRequest]
    /\ UNCHANGED contexts

(***************************************************************************)
(* Resolvers that call the container they are handed                       *)
(* Service n may use the services below n, so the bindings are acyclic.    *)
(* Container.mu is a sync.RWMutex: RLock waits while a writer holds the    *)
(* lock or waits for it, Lock waits until no reader and no writer holds it.*)
(***************************************************************************)
\* the names bound in the container, in the order of their dependencies
Services == {1, 2}

NoOp == [do |-> "none", on |-> 0]

\* what the resolver of service n does with the container: nothing, Make of
\* a lower service, or Bind of a lower service
ResolverOps(n) ==
    {NoOp} \cup {[do |-> d, on |-> m] : d \in {"Make", "Bind"}, m \in {x \in Services : x < n}}

Unbound == [bound |-> FALSE, singleton |-> FALSE, op |-> NoOp]

LockInit ==
    /\ mu = [readers |-> 0, writer |-> 0, pending |-> {}]
    /\ stacks = [g \in Procs |-> <<>>]
    /\ graph = [n \in Services |-> Unbound]
    /\ cached = {}
    /\ nMakes = 0
    /\ finished = 0

\* Make would keep the read lock until it returns (defer c.mu.RUnlock())
RUnlockAtReturn == "return"

\* where Make gives up the read lock on the path to the resolver: right
\* after the lookup of the binding (line 79)
RUnlockPoint == "lookup"

Top(g) == stacks[g][Len(stacks[g])]

\* the innermost call of g is at pc
At(g, pc) == stacks[g] # <<>> /\ Top(g).pc = pc

SetTop(g, frame) == [stacks EXCEPT ![g] = [@ EXCEPT ![Len(@)] = frame]]

\* the innermost call of g returns: its caller, a resolver, goes on
Pop(g) ==
    LET rest == SubSeq(stacks[g], 1, Len(stacks[g]) - 1)
    IN  [stacks EXCEPT ![g] =
            IF rest = <<>> THEN rest
            ELSE [rest EXCEPT ![Len(rest)] = [@ EXCEPT !.pc = "resolved"]]]

\* an outermost Make whose resolver called the container returns
Finish(g) ==
    IF Len(stacks[g]) = 1 /\ Top(g).called THEN finished + 1 ELSE finished

Frame(kind, n) ==
    [kind |-> kind, name |-> n, pc |-> IF kind = "make" THEN "rlock" ELSE "lock",
     singleton |-> FALSE, op |-> NoOp, called |-> FALSE, holds |-> FALSE]

\* Bind / Singleton while the application is set up, before any Make
LBind(n, singleton, op) ==
    /\ nMakes = 0
    /\ ~graph[n].bound
    /\ graph' = [graph EXCEPT ![n] = [bound |-> TRUE, singleton |-> singleton, op |-> op]]
    /\ UNCHANGED <<mu, stacks, cached, nMakes, finished>>

\* a goroutine calls Make(n)
LMake(g, n) ==
    /\ stacks[g] = <<>>
    /\ nMakes < MaxMakes
    /\ nMakes' = nMakes + 1
    /\ stacks' = [stacks EXCEPT ![g] = <<Frame("make", n)>>]
    /\ UNCHANGED <<mu, graph, cached, finished>>

\* c.mu.RLock() (line 64)
LRLock(g) ==
    /\ At(g, "rlock")
    /\ mu.writer = 0
    /\ mu.pending = {}
    /\ mu' = [mu EXCEPT !.readers = @ + 1]
    /\ stacks' = SetTop(g, [Top(g) EXCEPT !.pc = "lookup", !.holds = TRUE])
    /\ UNCHANGED <<graph, cached, nMakes, finished>>

\* lines 72-83: a cached instance or a missing binding returns after
\* RUnlock; otherwise the binding is kept and the lock given up.  A resolver
\* that does not call the container runs within this step.
LLookup(g) ==
    LET f == Top(g)
    IN  /\ At(g, "lookup")
        /\ IF f.name \in cached \/ ~graph[f.name].bound
           THEN /\ mu' = [mu EXCEPT !.readers = @ - 1]
                /\ stacks' = Pop(g)
                /\ finished' = Finish(g)
           ELSE /\ mu' = IF RUnlockPoint = "lookup"
                         THEN [mu EXCEPT !.readers = @ - 1] ELSE mu
                /\ stacks' = SetTop(g, [f EXCEPT !.pc = IF graph[f.name].op.do = "none"
                                                        THEN "resolved" ELSE "resolve",
                                                 !.singleton = graph[f.name].singleton,
                                                 !.op = graph[f.name].op,
                                                 !.holds = RUnlockPoint # "lookup"])
                /\ finished' = finished
        /\ UNCHANGED <<graph, cached, nMakes>>

\* bind.resolver(c) (line 86): the resolver runs and calls the container
LResolve(g) ==
    LET f == Top(g)
    IN  /\ At(g, "resolve")
        /\ stacks' =
              [stacks EXCEPT ![g] =
                  Append([@ EXCEPT ![Len(@)] = [f EXCEPT !.pc = "calling", !.called = TRUE]],
                         Frame(IF f.op.do = "Make" THEN "make" ELSE "bind", f.op.on))]
        /\ UNCHANGED <<mu, graph, cached, nMakes, finished>>

\* the resolver has returned: a transient binding returns (line 95), a
\* singleton goes on to store its instance
LResolved(g) ==
    LET f == Top(g)
    IN  /\ At(g, "resolved")
        /\ IF f.singleton
           THEN /\ stacks' = SetTop(g, [f EXCEPT !.pc = "lock"])
                /\ UNCHANGED <<mu, finished>>
           ELSE /\ stacks' = Pop(g)
                /\ mu' = IF f.holds THEN [mu EXCEPT !.readers = @ - 1] ELSE mu
                /\ finished' = Finish(g)
        /\ UNCHANGED <<graph, cached, nMakes>>

\* c.mu.Lock() is called (lines 34, 90): from now on new readers wait
LLock(g) ==
    /\ At(g, "lock")
    /\ mu' = [mu EXCEPT !.pending = @ \cup {g}]
    /\ stacks' = SetTop(g, [Top(g) EXCEPT !.pc = "locking"])
    /\ UNCHANGED <<graph, cached, nMakes, finished>>

\* c.mu.Lock() returns: no reader and no writer holds the lock
LAcquire(g) ==
    /\ At(g, "locking")
    /\ mu.readers = 0
    /\ mu.writer = 0
    /\ mu' = [mu EXCEPT !.writer = g, !.pending = @ \ {g}]
    /\ stacks' = SetTop(g, [Top(g) EXCEPT !.pc = "locked"])
    /\ UNCHANGED <<graph, cached, nMakes, finished>>

\* under the write lock: c.instances[abstract] = instance (line 91) or
\* c.bindings[abstract] = &binding{...} (line 37), then Unlock and return
LWrite(g) ==
    LET f == Top(g)
    IN  /\ At(g, "locked")
        /\ cached' = IF f.kind = "make" THEN cached \cup {f.name} ELSE cached
        /\ graph' = IF f.kind = "bind"
                    THEN [graph EXCEPT ![f.name] =
                            [bound |-> TRUE, singleton |-> FALSE, op |-> NoOp]]
                    ELSE graph
        /\ mu' = [mu EXCEPT !.writer = 0,
                            !.readers = IF f.holds THEN @ - 1 ELSE @]
        /\ stacks' = Pop(g)
        /\ finished' = Finish(g)
        /\ UNCHANGED nMakes

\* the steps of goroutine g inside the container
LStep(g) ==
    /\ \/ LRLock(g) \/ LLookup(g) \/ LResolve(g) \/ LResolved(g)
       \/ LLock(g) \/ LAcquire(g) \/ LWrite(g)
    /\ UNCHANGED <<cvars, avars, dvars, mvars, rvars, bvars, xvars, gvars, tvars>>

(***************************************************************************)
(* Migrator                                                                *)
(* A migration is known by its name, and names are ordered as their        *)
(* timestamps are; each migration is registered once.  The migrations      *)
(* table is the sequence of the recorded names in the order of their ids.  *)
(* The database executes every statement; an Up or a Down may fail.        *)
(***************************************************************************)
MigNames == 1..MaxMigs

\* no Up or Down fails
NoFailure == 0

\* what an operation did: events are the calls of Up and Down and the
\* writes to the table, before and registered the table and m.migrations
\* when it began, failed the migration whose Up or Down failed, resume the
\* migration whose Up failed in the Run right before this one, and again
\* tells that the operation right before this one was a Run that returned nil
NoOperation ==
    [op |-> "none", err |-> FALSE, before |-> <<>>, registered |-> <<>>,
     events |-> <<>>, failed |-> 0, resume |-> 0, again |-> FALSE]

MigratorInit ==
    /\ migrations = <<>>
    /\ table = <<>>
    /\ mig = NoOperation
    /\ nOps = 0

MigEvent(e, name) == [e |-> e, name |-> name]

RegisteredNames(ms) == {ms[i] : i \in 1..Len(ms)}

\* NewMigrator on a database that has its table already: nothing registered
NewMigrator ==
    /\ nOps < MaxOps
    /\ migrations # <<>>
    /\ nOps' = nOps + 1
    /\ migrations' = <<>>
    /\ mig' = [NoOperation EXCEPT !.op = "new", !.before = table]
    /\ UNCHANGED table

\* Migrator.Register: m.migrations = append(m.migrations, migration)
Register(name) ==
    /\ nOps < MaxOps
    /\ name \notin RegisteredNames(migrations)
    /\ nOps' = nOps + 1
    /\ migrations' = Append(migrations, name)
    /\ mig' = [NoOperation EXCEPT !.op = "register", !.before = table,
                                  !.registered = migrations']
    /\ UNCHANGED table

\* a Run that takes the migrations in the order of registration
Unsorted(ms) == ms

\* sort.Slice(m.migrations, ... Name() < Name()): ascending by name
RECURSIVE SortByName(_)
SortByName(ms) ==
    IF ms = <<>> THEN <<>>
    ELSE LET least == CHOOSE i \in 1..Len(ms) : \A j \in 1..Len(ms) : ~(ms[j] < ms[i])
         IN  <<ms[least]>> \o
             SortByName(SubSeq(ms, 1, least - 1) \o SubSeq(ms, least + 1, Len(ms)))

\* Migrator.hasRun
HasRun(name, ran) == \E i \in 1..Len(ran) : ran[i] = name

\* Migrator.recordMigration: INSERT INTO migrations; the new row has the
\* highest id
RecordMigration(tbl, name) == Append(tbl, name)

\* Migrator.deleteMigration: DELETE FROM migrations WHERE migration = name
DeleteMigration(tbl, name) ==
    LET Other(x) == x # name IN SelectSeq(tbl, Other)

\* a Run that goes on with the next migration when an Up has failed
GoesOnAfterFailure == FALSE

\* Run returns the error of a failed Up from inside the loop (line 64)
StopsAtFailure == TRUE

\* the loop of Run (lines 56-73) from position i on; ran is the list read
\* before the loop, bad the migration whose Up fails
RECURSIVE RunLoop(_, _, _, _, _)
RunLoop(sorted, i, ran, bad, st) ==
    IF i > Len(sorted) THEN st
    ELSE IF HasRun(sorted[i], ran) THEN RunLoop(sorted, i + 1, ran, bad, st)
    ELSE IF sorted[i] = bad
    THEN LET stopped == [st EXCEPT !.events = Append(@, MigEvent("up failed", sorted[i])),
                                   !.err = TRUE,
                                   !.failed = IF @ = 0 THEN sorted[i] ELSE @]
         IN  IF StopsAtFailure THEN stopped
             ELSE RunLoop(sorted, i + 1, ran, bad, stopped)
    ELSE RunLoop(sorted, i + 1, ran, bad,
                 [st EXCEPT !.events = @ \o <<MigEvent("up", sorted[i]),
                                              MigEvent("record", sorted[i])>>,
                            !.table = RecordMigration(@, sorted[i])])

\* what an operation starts from
Started == [table |-> table, events |-> <<>>, err |-> FALSE, failed |-> 0]

\* Migrator.Run; the sort reorders m.migrations itself
MigratorRun(bad) ==
    LET sorted == SortByName(migrations)
        out == RunLoop(sorted, 1, table, bad, Started)
    IN  /\ nOps < MaxOps
        /\ nOps' = nOps + 1
        /\ migrations' = sorted
        /\ table' = out.table
        /\ mig' = [op |-> "run", err |-> out.err, before |-> table,
                   registered |-> migrations, events |-> out.events,
                   failed |-> out.failed,
                   resume |-> IF mig.op = "run" THEN mig.failed ELSE 0,
                   again |-> mig.op = "run" /\ ~mig.err]

\* a Rollback that takes the migration recorded first
FirstRecorded(ran) == ran[1]

\* lastMigration := ran[len(ran)-1]
LastRecorded(ran) == ran[Len(ran)]

\* the body of Migrator.Rollback on the table of st; ms are the registered
\* migrations, bad is the migration whose Down fails
RollbackOn(st, ms, bad) ==
    IF st.table = <<>> THEN st
    ELSE LET lastMigration == LastRecorded(st.table) IN
         IF lastMigration \notin RegisteredNames(ms) THEN [st EXCEPT !.err = TRUE]
         ELSE IF lastMigration = bad
         THEN [st EXCEPT !.events = Append(@, MigEvent("down failed", lastMigration)),
                         !.err = TRUE, !.failed = lastMigration]
         ELSE [st EXCEPT !.events = @ \o <<MigEvent("down", lastMigration),
                                           MigEvent("delete", lastMigration)>>,
                         !.table = DeleteMigration(@, lastMigration)]

\* Migrator.Rollback
Rollback(bad) ==
    LET out == RollbackOn(Started, migrations, bad)
    IN  /\ nOps < MaxOps
        /\ nOps' = nOps + 1
        /\ table' = out.table
        /\ mig' = [op |-> "rollback", err |-> out.err, before |-> table,
                   registered |-> migrations, events |-> out.events,
                   failed |-> out.failed, resume |-> 0, again |-> FALSE]
        /\ UNCHANGED migrations

\* for i := len(ran) - 1; i >= 0; i-- { if err := m.Rollback(); err != nil { return err } }
RECURSIVE ResetLoop(_, _, _, _)
ResetLoop(i, st, ms, bad) ==
    IF i < 1 THEN st
    ELSE LET out == RollbackOn(st, ms, bad)
         IN  IF out.err THEN out ELSE ResetLoop(i - 1, out, ms, bad)

\* Migrator.Reset
Reset(bad) ==
    LET out == ResetLoop(Len(table), Started, migrations, bad)
    IN  /\ nOps < MaxOps
        /\ nOps' = nOps + 1
        /\ table' = out.table
        /\ mig' = [op |-> "reset", err |-> out.err, before |-> table,
                   registered |-> migrations, events |-> out.events,
                   failed |-> out.failed, resume |-> 0, again |-> FALSE]
        /\ UNCHANGED migrations

(***************************************************************************)
(* DB.Transaction                                                          *)
(* Every call runs on the goroutine of its caller with a sql.Tx of its     *)
(* own.  A Tx counts the Commit and Rollback calls made on it.             *)
(***************************************************************************)
\* what the callback does: return nil, return an error, panic
CallbackOutcomes == {"nil", "err", "panic"}

IdleCall == [pc |-> "idle", tx |-> 0, panicking |-> FALSE, ret |-> "nil"]

NewTx ==
    [fn |-> "running", commits |-> 0, rollbacks |-> 0, over |-> FALSE,
     ret |-> "nil", panicked |-> FALSE]

TransactionInit ==
    /\ txns = <<>>
    /\ tcall = [g \in Procs |-> IdleCall]

\* tx, err := db.conn.Begin() (lines 312-315): without a transaction the
\* call returns the error at once
TBegin(g, ok) ==
    /\ tcall[g].pc = "idle"
    /\ Len(txns) < MaxTx
    /\ IF ok
       THEN /\ txns' = Append(txns, NewTx)
            /\ tcall' = [tcall EXCEPT ![g] = [IdleCall EXCEPT !.pc = "fn", !.tx = Len(txns) + 1]]
       ELSE /\ txns' = txns
            /\ tcall' = [tcall EXCEPT ![g] = [IdleCall EXCEPT !.pc = "failed", !.ret = "begin error"]]

\* the caller has the error of Begin
TBeginFailed(g) ==
    /\ tcall[g].pc = "failed"
    /\ tcall' = [tcall EXCEPT ![g] = IdleCall]
    /\ UNCHANGED txns

\* fn(tx) (line 324)
TCallback(g, outcome) ==
    /\ tcall[g].pc = "fn"
    /\ txns' = [txns EXCEPT ![tcall[g].tx].fn = outcome]
    /\ tcall' = [tcall EXCEPT ![g].pc = CASE outcome = "nil" -> "commit"
                                          [] outcome = "err" -> "rollback"
                                          [] outcome = "panic" -> "deferred",
                              ![g].panicking = (outcome = "panic")]

\* _ = tx.Rollback(); return err (lines 325-326)
TRollback(g) ==
    /\ tcall[g].pc = "rollback"
    /\ txns' = [txns EXCEPT ![tcall[g].tx].rollbacks = @ + 1]
    /\ tcall' = [tcall EXCEPT ![g].pc = "deferred", ![g].ret = "fn error"]

\* return tx.Commit() (line 329)
TCommit(g, ok) ==
    /\ tcall[g].pc = "commit"
    /\ txns' = [txns EXCEPT ![tcall[g].tx].commits = @ + 1]
    /\ tcall' = [tcall EXCEPT ![g].pc = "deferred",
                              ![g].ret = IF ok THEN "nil" ELSE "commit error"]

\* a deferred function that rolls back whenever the function leaves
DeferredRollsBackAlways(c) == TRUE

\* if p := recover(); p != nil (line 318)
DeferredRollsBack(c) == c.panicking

\* the deferred function (lines 317-322), then the call returns or panics
\* again
TDeferred(g) ==
    LET c == tcall[g]
    IN  /\ c.pc = "deferred"
        /\ txns' = [txns EXCEPT ![c.tx] =
                        [@ EXCEPT !.rollbacks = IF DeferredRollsBack(c) THEN @ + 1 ELSE @,
                                  !.over = TRUE, !.ret = c.ret,
                                  !.panicked = c.panicking]]
        /\ tcall' = [tcall EXCEPT ![g] = IdleCall]

DispatchNext ==
    \/ UNCHANGED <<cvars, avars, mvars, rvars, bvars, xvars, lvars, gvars, tvars>> /\ \E r \in 1..Len(routers), m \in AddMethods, t \in Templates :
                   Add(r, m, t, HandlerId(ToUpper(m), Len(BucketOf(ToUpper(m))) + 1))
    \/ UNCHANGED <<cvars, avars, mvars, rvars, bvars, xvars, lvars, gvars, tvars>> /\ \E m \in DOMAIN routes : \E i \in 1..Len(routes[m]) :
                   RouteMiddleware(m, i, RouteMwId(m, i, Len(routes[m][i].middleware) + 1))
    \/ UNCHANGED <<cvars, avars, mvars, rvars, bvars, xvars, lvars, gvars, tvars>> /\ \E r \in 1..Len(routers) :
                   RouterMiddleware(r, RouterMwId(r, Len(routers[r].middleware) + 1))
    \/ UNCHANGED <<cvars, avars, mvars, rvars, bvars, xvars, lvars, gvars, tvars>> /\ \E r \in 1..Len(routers), x \in Prefixes : Group(r, x)
    \/ UNCHANGED <<cvars, avars, mvars, rvars, bvars, xvars, lvars, gvars, tvars>> /\ Use(AppMwId(Len(appMw) + 1))
    \/ UNCHANGED <<cvars, avars, mvars, rvars, bvars, xvars, lvars, gvars, tvars>> /\ \E m \in ReqMethods, x \in ReqPaths, does \in Behaviours :
                   Serve(m, x, does)

\* registration, then a request in which one middleware short-circuits
ShortCircuitNext ==
    \/ UNCHANGED <<cvars, avars, mvars, rvars, bvars, xvars, lvars, gvars, tvars>> /\ \E r \in 1..Len(routers), m \in AddMethods, t \in Templates :
                   Add(r, m, t, HandlerId(ToUpper(m), Len(BucketOf(ToUpper(m))) + 1))
    \/ UNCHANGED <<cvars, avars, mvars, rvars, bvars, xvars, lvars, gvars, tvars>> /\ \E m \in DOMAIN routes : \E i \in 1..Len(routes[m]) :
                   RouteMiddleware(m, i, RouteMwId(m, i, Len(routes[m][i].middleware) + 1))
    \/ UNCHANGED <<cvars, avars, mvars, rvars, bvars, xvars, lvars, gvars, tvars>> /\ \E r \in 1..Len(routers) :
                   RouterMiddleware(r, RouterMwId(r, Len(routers[r].middleware) + 1))
    \/ UNCHANGED <<cvars, avars, mvars, rvars, bvars, xvars, lvars, gvars, tvars>> /\ \E r \in 1..Len(routers), x \in Prefixes : Group(r, x)
    \/ UNCHANGED <<cvars, avars, mvars, rvars, bvars, xvars, lvars, gvars, tvars>> /\ Use(AppMwId(Len(appMw) + 1))
    \/ UNCHANGED <<cvars, avars, mvars, rvars, bvars, xvars, lvars, gvars, tvars>> /\ \E m \in ReqMethods, x \in ReqPaths, ret \in StopReturns, at \in 1..MaxSetup :
                   ServeStopping(m, x, ret, at)

\* goroutines are interchangeable: a new call is made by the first idle one
FirstIdle(p) == \A q \in Procs : q < p => proc[q].pc # "idle"

\* no goroutine is between the last step of Make and its return statement.
\* The return hands the value to the caller and touches nothing of the
\* container, so it commutes with every other step: it is taken first
Handed == \A p \in Procs : proc[p].pc # "done"

\* the operations of the container, from any number of goroutines
ContainerNext ==
    \/ UNCHANGED <<dvars, mvars, rvars, bvars, avars, xvars, lvars, gvars, tvars>> /\ Handed /\ \E n \in Names, r \in Resolvers : Bind(n, r)
    \/ UNCHANGED <<dvars, mvars, rvars, bvars, avars, xvars, lvars, gvars, tvars>> /\ Handed /\ \E n \in Names, r \in Resolvers : Singleton(n, r)
    \/ UNCHANGED <<dvars, mvars, rvars, bvars, avars, xvars, lvars, gvars, tvars>> /\ Handed /\ \E n \in Names, v \in ExtVals : Instance(n, v)
    \/ UNCHANGED <<dvars, mvars, rvars, bvars, avars, xvars, lvars, gvars, tvars>> /\ Handed /\ \E al \in Names, n \in Names : Alias(al, n)
    \/ UNCHANGED <<dvars, mvars, rvars, bvars, avars, xvars, lvars, gvars, tvars>> /\ Handed /\ \E n \in Names : Forget(n)
    \/ UNCHANGED <<dvars, mvars, rvars, bvars, avars, xvars, lvars, gvars, tvars>> /\ Handed /\ Flush
    \/ UNCHANGED <<dvars, mvars, rvars, bvars, avars, xvars, lvars, gvars, tvars>> /\ Handed /\ \E p \in Procs, n \in Names : FirstIdle(p) /\ MakeLookup(p, n)
    \/ UNCHANGED <<dvars, mvars, rvars, bvars, avars, xvars, lvars, gvars, tvars>> /\ Handed /\ \E p \in Procs : MakeResolveTransient(p)
    \/ UNCHANGED <<dvars, mvars, rvars, bvars, avars, xvars, lvars, gvars, tvars>> /\ Handed /\ \E p \in Procs : MakeResolveSingleton(p)
    \/ UNCHANGED <<dvars, mvars, rvars, bvars, avars, xvars, lvars, gvars, tvars>> /\ Handed /\ \E p \in Procs : MakeStore(p)
    \/ UNCHANGED <<dvars, mvars, rvars, bvars, avars, xvars, lvars, gvars, tvars>> /\ \E p \in Procs : MakeReturn(p)

\* no Make call is in progress
Quiet == \A p \in Procs : proc[p].pc = "idle"

\* the container used by one caller at a time: an operation begins only when
\* no Make is in progress
ContainerSeqNext ==
    \/ UNCHANGED <<dvars, mvars, rvars, bvars, avars, xvars, lvars, gvars, tvars>> /\ Quiet /\ \E n \in Names, r \in Resolvers : Bind(n, r)
    \/ UNCHANGED <<dvars, mvars, rvars, bvars, avars, xvars, lvars, gvars, tvars>> /\ Quiet /\ \E n \in Names, r \in Resolvers : Singleton(n, r)
    \/ UNCHANGED <<dvars, mvars, rvars, bvars, avars, xvars, lvars, gvars, tvars>> /\ Quiet /\ \E n \in Names, v \in ExtVals : Instance(n, v)
    \/ UNCHANGED <<dvars, mvars, rvars, bvars, avars, xvars, lvars, gvars, tvars>> /\ Quiet /\ \E al \in Names, n \in Names : Alias(al, n)
    \/ UNCHANGED <<dvars, mvars, rvars, bvars, avars, xvars, lvars, gvars, tvars>> /\ Quiet /\ \E n \in Names : Forget(n)
    \/ UNCHANGED <<dvars, mvars, rvars, bvars, avars, xvars, lvars, gvars, tvars>> /\ Quiet /\ Flush
    \/ UNCHANGED <<dvars, mvars, rvars, bvars, avars, xvars, lvars, gvars, tvars>> /\ Quiet /\ \E p \in Procs, n \in Names : MakeLookup(p, n)
    \/ UNCHANGED <<dvars, mvars, rvars, bvars, xvars, lvars, gvars, tvars>> /\ Quiet /\ \E p \in Procs, n \in Names : MustMake(p, n)
    \/ UNCHANGED <<dvars, mvars, rvars, bvars, xvars, lvars, gvars, tvars>> /\ \E p \in Procs : MustMakeReturn(p)
    \/ UNCHANGED <<dvars, mvars, rvars, bvars, xvars, lvars, gvars, tvars>> /\ \E p \in Procs : MustMakeUnwound(p)
    \/ UNCHANGED <<dvars, mvars, rvars, bvars, avars, xvars, lvars, gvars, tvars>> /\ \E p \in Procs : MakeResolveTransient(p)
    \/ UNCHANGED <<dvars, mvars, rvars, bvars, avars, xvars, lvars, gvars, tvars>> /\ \E p \in Procs : MakeResolveSingleton(p)
    \/ UNCHANGED <<dvars, mvars, rvars, bvars, avars, xvars, lvars, gvars, tvars>> /\ \E p \in Procs : MakeStore(p)
    \/ UNCHANGED <<dvars, mvars, rvars, bvars, avars, xvars, lvars, gvars, tvars>> /\ \E p \in Procs : ~must[p] /\ MakeReturn(p)

\* a template is compiled and matched
MatchNext ==
    \/ UNCHANGED <<cvars, avars, dvars, rvars, bvars, xvars, lvars, gvars, tvars>> /\ \E t \in MatchTemplates : MCompile(t)
    \/ UNCHANGED <<cvars, avars, dvars, rvars, bvars, xvars, lvars, gvars, tvars>> /\ \E v \in [NameSet(mRoute.path) -> Literals] : MMatch(v)
    \/ UNCHANGED <<cvars, avars, dvars, rvars, bvars, xvars, lvars, gvars, tvars>> /\
          \E v \in [NameSet(mRoute.path) -> TryLiterals], extra \in Extras : MTry(v, extra)

\* registrations followed by auto-wiring, one call at a time
WireNext ==
    \/ UNCHANGED <<dvars, mvars, rvars, bvars, avars, xvars, lvars, gvars, tvars>> /\ \E n \in Names, r \in Resolvers : Bind(n, r)
    \/ UNCHANGED <<dvars, mvars, rvars, bvars, avars, xvars, lvars, gvars, tvars>> /\ \E n \in Names, r \in Resolvers : Singleton(n, r)
    \/ UNCHANGED <<dvars, mvars, rvars, bvars, avars, xvars, lvars, gvars, tvars>> /\ \E n \in Names, v \in ExtVals : Instance(n, v)
    \/ UNCHANGED <<dvars, mvars, rvars, bvars, avars, xvars, lvars, gvars, tvars>> /\ \E al \in Names, n \in Names : Alias(al, n)
    \/ UNCHANGED <<dvars, mvars, rvars, bvars, xvars, lvars, gvars, tvars>> /\ \E t \in Structs : Resolve(t)
    \/ UNCHANGED <<dvars, mvars, rvars, bvars, xvars, lvars, gvars, tvars>> /\ \E t \in Funcs : \E k \in 0..Len(t) : Call(t, k)

\* the rate limiter shared by concurrently dispatched requests: the
\* middleware takes no lock, so the steps of different requests interleave
RateNext ==
    \/ UNCHANGED <<cvars, avars, dvars, mvars, bvars, xvars, lvars, gvars, tvars>> /\ \E n \in 0..MaxQuota : RateLimit(n)
    \/ UNCHANGED <<cvars, avars, dvars, mvars, bvars, xvars, lvars, gvars, tvars>> /\ Tick
    \/ UNCHANGED <<cvars, avars, dvars, mvars, bvars, xvars, lvars, gvars, tvars>> /\ \E g \in Procs, ip \in IPs : RLBegin(g, ip)
    \/ UNCHANGED <<cvars, avars, dvars, mvars, bvars, xvars, lvars, gvars, tvars>> /\ \E g \in Procs : RLCheck(g)
    \/ UNCHANGED <<cvars, avars, dvars, mvars, bvars, xvars, lvars, gvars, tvars>> /\ \E g \in Procs : RLLoad(g)
    \/ UNCHANGED <<cvars, avars, dvars, mvars, bvars, xvars, lvars, gvars, tvars>> /\ \E g \in Procs : RLStore(g)
    \/ UNCHANGED <<cvars, avars, dvars, mvars, bvars, xvars, lvars, gvars, tvars>> /\ \E g \in Procs : RLInsert(g)

\* the rate limiter with requests handled one at a time
RateSeqNext ==
    \/ UNCHANGED <<cvars, avars, dvars, mvars, bvars, xvars, lvars, gvars, tvars>> /\ \E n \in 0..MaxQuota : RateLimit(n)
    \/ UNCHANGED <<cvars, avars, dvars, mvars, bvars, xvars, lvars, gvars, tvars>> /\ RateQuiet /\ Tick
    \/ UNCHANGED <<cvars, avars, dvars, mvars, bvars, xvars, lvars, gvars, tvars>> /\ RateQuiet /\ \E g \in Procs, ip \in IPs : RLBegin(g, ip)
    \/ UNCHANGED <<cvars, avars, dvars, mvars, bvars, xvars, lvars, gvars, tvars>> /\ \E g \in Procs : RLCheck(g)
    \/ UNCHANGED <<cvars, avars, dvars, mvars, bvars, xvars, lvars, gvars, tvars>> /\ \E g \in Procs : RLLoad(g)
    \/ UNCHANGED <<cvars, avars, dvars, mvars, bvars, xvars, lvars, gvars, tvars>> /\ \E g \in Procs : RLStore(g)
    \/ UNCHANGED <<cvars, avars, dvars, mvars, bvars, xvars, lvars, gvars, tvars>> /\ \E g \in Procs : RLInsert(g)

\* the built-in middleware: the chain is set up, then one request is served
BuiltinNext ==
    \/ UNCHANGED <<cvars, avars, dvars, mvars, rvars, xvars, lvars, gvars, tvars>> /\ \E mw \in Builtins : BUse(mw)
    \/ UNCHANGED <<cvars, avars, dvars, mvars, rvars, xvars, lvars, gvars, tvars>> /\ Bootstrap
    \/ UNCHANGED <<cvars, avars, dvars, mvars, rvars, xvars, lvars, gvars, tvars>> /\
          \E method \in BMethods, path \in BPaths, auth \in AuthHeaders,
             cookie \in AuthCookies, ctype \in ContentTypes, down \in Downstreams :
                BServe(method, path, auth, cookie, ctype, down)

\* requests served concurrently, each on its own goroutine
ContextNext ==
    \/ UNCHANGED <<cvars, avars, dvars, mvars, rvars, bvars, lvars, gvars, tvars>> /\ \E g \in Procs : CtxNew(g)
    \/ UNCHANGED <<cvars, avars, dvars, mvars, rvars, bvars, lvars, gvars, tvars>> /\ \E g \in Procs : CtxBindParams(g)
    \/ UNCHANGED <<cvars, avars, dvars, mvars, rvars, bvars, lvars, gvars, tvars>> /\ \E g \in Procs : CtxSet(g)
    \/ UNCHANGED <<cvars, avars, dvars, mvars, rvars, bvars, lvars, gvars, tvars>> /\ \E g \in Procs : CtxGet(g)
    \/ UNCHANGED <<cvars, avars, dvars, mvars, rvars, bvars, lvars, gvars, tvars>> /\ \E g \in Procs : CtxDone(g)

\* bindings are registered, then goroutines call Make
LockNext ==
    \/ UNCHANGED <<cvars, avars, dvars, mvars, rvars, bvars, xvars, gvars, tvars>> /\
          \E n \in Services, sg \in BOOLEAN : \E op \in ResolverOps(n) : LBind(n, sg, op)
    \/ UNCHANGED <<cvars, avars, dvars, mvars, rvars, bvars, xvars, gvars, tvars>> /\ \E g \in Procs, n \in Services : LMake(g, n)
    \/ UNCHANGED <<cvars, avars, dvars, mvars, rvars, bvars, xvars, gvars, tvars>> /\ \E g \in Procs : LRLock(g)
    \/ UNCHANGED <<cvars, avars, dvars, mvars, rvars, bvars, xvars, gvars, tvars>> /\ \E g \in Procs : LLookup(g)
    \/ UNCHANGED <<cvars, avars, dvars, mvars, rvars, bvars, xvars, gvars, tvars>> /\ \E g \in Procs : LResolve(g)
    \/ UNCHANGED <<cvars, avars, dvars, mvars, rvars, bvars, xvars, gvars, tvars>> /\ \E g \in Procs : LResolved(g)
    \/ UNCHANGED <<cvars, avars, dvars, mvars, rvars, bvars, xvars, gvars, tvars>> /\ \E g \in Procs : LLock(g)
    \/ UNCHANGED <<cvars, avars, dvars, mvars, rvars, bvars, xvars, gvars, tvars>> /\ \E g \in Procs : LAcquire(g)
    \/ UNCHANGED <<cvars, avars, dvars, mvars, rvars, bvars, xvars, gvars, tvars>> /\ \E g \in Procs : LWrite(g)

\* the operations on one Migrator, one at a time
MigratorNext ==
    \/ UNCHANGED <<cvars, avars, dvars, mvars, rvars, bvars, xvars, lvars, tvars>> /\ NewMigrator
    \/ UNCHANGED <<cvars, avars, dvars, mvars, rvars, bvars, xvars, lvars, tvars>> /\ \E name \in MigNames : Register(name)
    \/ UNCHANGED <<cvars, avars, dvars, mvars, rvars, bvars, xvars, lvars, tvars>> /\ \E bad \in MigNames \cup {NoFailure} : MigratorRun(bad)
    \/ UNCHANGED <<cvars, avars, dvars, mvars, rvars, bvars, xvars, lvars, tvars>> /\ \E bad \in MigNames \cup {NoFailure} : Rollback(bad)
    \/ UNCHANGED <<cvars, avars, dvars, mvars, rvars, bvars, xvars, lvars, tvars>> /\ \E bad \in MigNames \cup {NoFailure} : Reset(bad)

\* DB.Transaction called from several goroutines
TransactionNext ==
    \/ UNCHANGED <<cvars, avars, dvars, mvars, rvars, bvars, xvars, lvars, gvars>> /\ \E g \in Procs, ok \in BOOLEAN : TBegin(g, ok)
    \/ UNCHANGED <<cvars, avars, dvars, mvars, rvars, bvars, xvars, lvars, gvars>> /\ \E g \in Procs : TBeginFailed(g)
    \/ UNCHANGED <<cvars, avars, dvars, mvars, rvars, bvars, xvars, lvars, gvars>> /\ \E g \in Procs, outcome \in CallbackOutcomes : TCallback(g, outcome)
    \/ UNCHANGED <<cvars, avars, dvars, mvars, rvars, bvars, xvars, lvars, gvars>> /\ \E g \in Procs : TRollback(g)
    \/ UNCHANGED <<cvars, avars, dvars, mvars, rvars, bvars, xvars, lvars, gvars>> /\ \E g \in Procs, ok \in BOOLEAN : TCommit(g, ok)
    \/ UNCHANGED <<cvars, avars, dvars, mvars, rvars, bvars, xvars, lvars, gvars>> /\ \E g \in Procs : TDeferred(g)

vars == <<cvars, dvars, mvars, rvars, bvars, avars, xvars, lvars, gvars, tvars>>

Init == ContainerInit /\ RouterInit /\ MatchInit /\ RateInit /\ BuiltinInit /\ CallersInit /\ ContextInit /\ LockInit /\ MigratorInit /\ TransactionInit

\* the container used from several goroutines
SpecContainer == Init /\ [][ContainerNext]_vars

\* the container used by one caller at a time
SpecContainerSeq == Init /\ [][ContainerSeqNext]_vars

\* the rate limiter under concurrently dispatched requests
SpecRate == Init /\ [][RateNext]_vars

\* the rate limiter with requests handled one at a time
SpecRateSeq == Init /\ [][RateSeqNext]_vars

\* auto-wiring by Resolve and Call
SpecWire == Init /\ [][WireNext]_vars

\* the built-in middleware chain
SpecBuiltin == Init /\ [][BuiltinNext]_vars

\* the matcher on its own
SpecMatch == Init /\ [][MatchNext]_vars

\* registration of routes and middleware, then a request is served
SpecDispatch == Init /\ [][DispatchNext]_vars

\* registration of routes and middleware, then a request is served in which
\* one middleware short-circuits
SpecShortCircuit == Init /\ [][ShortCircuitNext]_vars

\* the Contexts of concurrently served requests
SpecContext == Init /\ [][ContextNext]_vars

\* resolvers that call the container, every goroutine inside the container
\* being scheduled again and again
SpecLockFair ==
    /\ Init /\ [][LockNext]_vars
    /\ \A g \in Procs : WF_vars(LStep(g))

\* the Migrator used by one caller
SpecMigrate == Init /\ [][MigratorNext]_vars

\* DB.Transaction under concurrent callers
SpecTransaction == Init /\ [][TransactionNext]_vars

(***************************************************************************)
(* Claims about the container                                              *)
(***************************************************************************)
IsSingleton(n) == n \in DOMAIN bindings /\ bindings[n].singleton

IsTransient(n) == n \in DOMAIN bindings /\ ~bindings[n].singleton

\* C1: concurrent Make calls on one singleton binding that was registered
\* with nothing cached invoke its resolver at most once, and all of them
\* return the same instance.
C1_ConcurrentSingletonOnce ==
    \A n \in Names :
        (hist[n].reg /\ hist[n].fresh /\ IsSingleton(n))
            => (hist[n].invs <= 1 /\ Cardinality(hist[n].rets) <= 1)

\* what a sequence of Make calls on a singleton must have produced
SingletonOutcome(n) ==
    /\ hist[n].invs = 1
    /\ Cardinality(hist[n].rets) = 1
    /\ hist[n].made >= hist[n].madeReq
    /\ n \in DOMAIN instances
    /\ instances[n] \in hist[n].rets

\* C2 as stated: after Singleton(name, resolver), sequential Make(name) calls
\* all return the same instance, the resolver has run exactly once in total
\* and its result is the cached instance.
C2_SequentialSingleton_Original ==
    \A n \in Names :
        (hist[n].reg /\ IsSingleton(n) /\ Quiet /\ hist[n].madeReq >= 1)
            => SingletonOutcome(n)

\* C2 amended: the same, for a name that had no cached instance and was no
\* alias when Singleton registered it.
C2_SequentialSingleton ==
    \A n \in Names :
        (hist[n].reg /\ hist[n].fresh /\ IsSingleton(n) /\ Quiet /\ hist[n].madeReq >= 1)
            => SingletonOutcome(n)

\* two Make(name) calls have returned for a freshly registered singleton
C2_Witness ==
    \E n \in Names :
        hist[n].reg /\ hist[n].fresh /\ IsSingleton(n) /\ Quiet /\ hist[n].madeReq >= 2

\* what Make calls on a transient binding must have produced: one resolver
\* invocation and one distinct object per call, nothing cached
TransientOutcome(n) ==
    /\ hist[n].invs = hist[n].made
    /\ Cardinality(hist[n].rets) = hist[n].made
    /\ hist[n].made >= hist[n].madeReq
    /\ n \notin DOMAIN instances

\* C3 as stated: after Bind(name, resolver) with no Instance registered for
\* name, every Make(name) invokes the resolver afresh, returns that
\* invocation's result and caches nothing.
C3_TransientFresh_Original ==
    \A n \in Names :
        (hist[n].reg /\ ~hist[n].hadInst /\ IsTransient(n)) => TransientOutcome(n)

\* C3 amended: the same, for a name that was no alias and had no Make in
\* progress when Bind registered it.
C3_TransientFresh ==
    \A n \in Names :
        (hist[n].reg /\ hist[n].fresh /\ IsTransient(n)) => TransientOutcome(n)

\* two Make(name) calls have returned for a freshly registered transient binding
C3_Witness ==
    \E n \in Names :
        hist[n].reg /\ hist[n].fresh /\ IsTransient(n) /\ hist[n].madeReq >= 2

\* the Make call of goroutine p went the way MakeOutcome says for its request
FollowsOutcome(p) ==
    /\ proc[p].pc = "resolve" =>
            /\ MakeOutcome(proc[p].req).kind = "resolve"
            /\ proc[p].abstract = MakeOutcome(proc[p].req).name
            /\ proc[p].resolver = MakeOutcome(proc[p].req).resolver
            /\ proc[p].singleton = MakeOutcome(proc[p].req).singleton
    /\ (proc[p].pc = "done" /\ proc[p].err) =>
            /\ MakeOutcome(proc[p].req).kind = "error"
            /\ proc[p].abstract = MakeOutcome(proc[p].req).name
    /\ (proc[p].pc = "done" /\ ~proc[p].err) =>
            /\ proc[p].abstract = ResolveAlias(proc[p].req)
            /\ (MakeOutcome(proc[p].req).kind = "cached" =>
                    MakeOutcome(proc[p].req).value = proc[p].ret)

\* a singleton resolved by goroutine p through an alias is cached under the
\* name the alias stands for
CachedUnderCanonical(p) ==
    (proc[p].pc = "done" /\ proc[p].singleton /\ proc[p].req \in DOMAIN aliases) =>
        /\ aliases[proc[p].req] \in DOMAIN instances
        /\ instances[aliases[proc[p].req]] = proc[p].ret

\* C17 as stated: for every alias a registered with Alias(a, n), Make(a) has
\* the outcome of Make(n), and a singleton resolved through a is cached
\* under n.
C17_AliasSameOutcome_Original ==
    /\ \A a \in DOMAIN aliases : MakeOutcome(a) = MakeOutcome(aliases[a])
    /\ \A p \in Procs : FollowsOutcome(p) /\ CachedUnderCanonical(p)

\* C17 amended: the same for every alias a of a name n that is not itself an
\* alias of another name.
C17_AliasSameOutcome ==
    /\ \A a \in DOMAIN aliases :
            ResolveAlias(aliases[a]) = aliases[a] =>
                MakeOutcome(a) = MakeOutcome(aliases[a])
    /\ \A p \in Procs : FollowsOutcome(p) /\ CachedUnderCanonical(p)

\* a singleton was resolved once and returned by two Make calls, one asking
\* for the alias and one for the name it stands for
C17_Witness ==
    \E a \in DOMAIN aliases :
        /\ aliases[a] # a
        /\ aliases[a] \notin DOMAIN aliases
        /\ IsSingleton(aliases[a])
        /\ hist[a].madeReq = 1
        /\ hist[aliases[a]].madeReq = 1
        /\ hist[aliases[a]].made = 2
        /\ hist[aliases[a]].invs = 1
        /\ Cardinality(hist[aliases[a]].rets) = 1

\* goroutine p begins a Make call in this step
BeginsMake(p) == proc[p].pc = "idle" /\ proc'[p].pc # "idle"

\* the name Make looks up for req has neither a cached instance nor a binding
Unregistered(req) ==
    /\ ResolveAlias(req) \notin DOMAIN instances
    /\ ResolveAlias(req) \notin DOMAIN bindings

\* C18: Make(name) on a name that, after alias resolution, has neither a
\* cached instance nor a binding fails with binding-not-found for the resolved
\* name, invokes no resolver and leaves bindings, instances and aliases
\* unchanged; MustMake on such a name panics with that error.
C18_BindingNotFound ==
    [][\A p \in Procs :
        /\ (BeginsMake(p) /\ Unregistered(proc'[p].req)) =>
                /\ proc'[p].pc = "done"
                /\ proc'[p].err
                /\ proc'[p].abstract = ResolveAlias(proc'[p].req)
                /\ UNCHANGED <<bindings, instances, aliases, nextObj>>
                /\ \A n \in Names : hist'[n].invs = hist[n].invs
        /\ (must[p] /\ proc[p].pc = "done" /\ proc[p].err /\ proc'[p] # proc[p]) =>
                /\ proc'[p] = [proc[p] EXCEPT !.pc = "panic"]
                /\ UNCHANGED <<bindings, instances, aliases, nextObj>>
      ]_vars

\* MustMake has panicked with the binding-not-found error of a name reached
\* through an alias
C18_Witness ==
    \E p \in Procs :
        /\ must[p]
        /\ proc[p].pc = "panic"
        /\ proc[p].err
        /\ proc[p].req \in DOMAIN aliases
        /\ proc[p].abstract # proc[p].req

\* Instance(n, v) has registered a value for n that is still in the cache
HasInstance(n) == n \in DOMAIN instances /\ instances[n] \in ExtVals

\* the Make call of goroutine p has returned the registered value of the name
\* it asked for, and no resolver has run for it
ReturnsInstance(p) ==
    /\ proc[p].pc = "done"
    /\ ~proc[p].err
    /\ proc[p].ret = instances[proc[p].req]
    /\ proc[p].instance = 0

\* C19 as stated: after Instance(name, v), every Make(name) returns v without
\* invoking a resolver, whether or not a binding exists for name.
C19_InstancePrecedence_Original ==
    \A p \in Procs :
        (proc[p].pc \notin {"idle", "panic"} /\ HasInstance(proc[p].req)) =>
            ReturnsInstance(p)

\* C19 amended: the same for a name that is not registered as an alias.
C19_InstancePrecedence ==
    \A p \in Procs :
        (/\ proc[p].pc \notin {"idle", "panic"}
         /\ HasInstance(proc[p].req)
         /\ proc[p].req \notin DOMAIN aliases) =>
            ReturnsInstance(p)

\* a Make call has returned the registered value of a name that has a
\* binding as well
C19_Witness ==
    \E p \in Procs :
        /\ proc[p].pc = "done"
        /\ HasInstance(proc[p].req)
        /\ proc[p].req \notin DOMAIN aliases
        /\ proc[p].req \in DOMAIN bindings
        /\ proc[p].ret = instances[proc[p].req]

\* the fields Resolve looks at, the parameters Call has to find itself
Injectable(i) == wired.tags[i] # "" /\ i > wired.nparams

\* C20: when Resolve meets an inject-tagged field, or Call a parameter, for
\* which no binding exists, that field or parameter stays at its zero value,
\* the operation does not abort, and every other field or parameter that has
\* a binding is injected.
C20_SoftAutoWiring ==
    wired.op # "" =>
        /\ ~wired.err
        /\ \A i \in 1..Len(wired.tags) :
                Injectable(i) =>
                    IF wired.found[i] THEN wired.fields[i] # Zero
                                      ELSE wired.fields[i] = Zero

\* C33: once Forget(name) or Flush has returned and nothing is registered
\* for name afterwards, a Make(name) that begins now fails with binding not
\* found and Bound(name) is false, also when a Make(name) on a singleton
\* binding was in progress while Forget or Flush ran.
C33_ForgottenStaysGone ==
    \A n \in Names :
        hist[n].gone => (MakeOutcome(n).kind = "error" /\ ~Bound(n))

\* C34: for every name, Bound(name) is true exactly when a Make(name) in the
\* same container state succeeds, names registered only as an alias included.
C34_BoundAgreesWithMake ==
    \A n \in Names : Bound(n) <=> MakeOutcome(n).kind # "error"

\* the cache entry of n was made by a resolver
ResolvedCache(n) == n \in DOMAIN instances /\ instances[n] \notin ExtVals

\* C35: when Bind or Singleton registers a name that has a cached instance
\* and is looked up under itself, the instance stays cached, and until the
\* next Instance, Alias, Forget or Flush every Make(name) returns that
\* instance and the resolver of the new binding is never invoked.
C35_CacheSurvivesRebind ==
    \A n \in Names :
        (hist[n].reg /\ hist[n].hadInst /\ n \notin DOMAIN aliases) =>
            /\ n \in DOMAIN instances
            /\ MakeOutcome(n).kind = "cached"
            /\ MakeOutcome(n).value = instances[n]
            /\ hist[n].invs = 0
            /\ hist[n].rets \subseteq {instances[n]}

\* a resolved singleton was cached for a name, the name was registered again
\* with a transient binding, and a Make(name) after that returned the cached
\* instance
C35_Witness ==
    \E n \in Names :
        /\ hist[n].reg /\ hist[n].hadInst /\ n \notin DOMAIN aliases
        /\ ResolvedCache(n)
        /\ IsTransient(n)
        /\ hist[n].madeReq >= 1
        /\ hist[n].rets = {instances[n]}

(***************************************************************************)
(* Claims about dispatch and the middleware chain                          *)
(***************************************************************************)
\* the before events of a middleware list in list order, the inner events,
\* then the after events in reverse list order
Nested(middleware, inner) ==
    [i \in 1..Len(middleware) |-> Event("before", middleware[i])]
        \o inner
        \o [i \in 1..Len(middleware) |->
                Event("after", middleware[Len(middleware) + 1 - i])]

\* the last request was dispatched to a route
Dispatched == resp.served /\ resp.route # 0

DispatchedRoute == routes[resp.method][resp.route]

\* the middleware of router r and of the routers that enclose it, outermost first
RECURSIVE EnclosingMiddleware(_)
EnclosingMiddleware(r) ==
    IF r = 0 THEN <<>>
    ELSE EnclosingMiddleware(routers[r].parent) \o routers[r].middleware

\* C4: a middleware list [A, B, C] composed around a handler by the reverse
\* fold runs A-before, B-before, C-before, handler, C-after, B-after, A-after;
\* this holds for the global list, the router's list and the route's list,
\* nested in that order.
C4_ChainOrder ==
    Dispatched =>
        resp.log = Nested(appMw,
                     Nested(routers[RootRouter].middleware,
                       Nested(DispatchedRoute.middleware,
                         <<Event("handler", DispatchedRoute.handler)>>)))

\* a request ran through a route with three stacked route middleware
C4_Witness == Dispatched /\ Len(DispatchedRoute.middleware) = 3

\* C5: a request matching a route registered inside a group runs global,
\* then the enclosing group's, then the route's middleware, the handler, and
\* unwinds in reverse.
C5_GroupMiddlewareOrder ==
    (Dispatched /\ DispatchedRoute.via # RootRouter) =>
        resp.log = Nested(appMw,
                     Nested(EnclosingMiddleware(DispatchedRoute.via),
                       Nested(DispatchedRoute.middleware,
                         <<Event("handler", DispatchedRoute.handler)>>)))

\* the routes of the request's bucket that match the request's path
MatchingRoutes ==
    {j \in 1..Len(BucketOf(resp.method)) : Match(BucketOf(resp.method)[j], resp.path).matched}

HandlerEvents(log) == SelectSeq(log, LAMBDA ev : ev.e = "handler")

\* C6: when several routes of the method's bucket match the path, the one
\* registered first is dispatched, its parameters are bound, and no other
\* route's handler runs.
C6_FirstMatchWins ==
    (resp.served /\ MatchingRoutes # {}) =>
        LET first == CHOOSE j \in MatchingRoutes : \A k \in MatchingRoutes : j <= k
            route == BucketOf(resp.method)[first]
        IN  /\ resp.route = first
            /\ resp.params = Match(route, resp.path).params
            /\ HandlerEvents(resp.log) = <<Event("handler", HandlerId(resp.method, first))>>

\* /u/{id} was registered before /u/m and GET /u/m ran the first with id = "m"
C6_Witness ==
    /\ resp.served
    /\ Cardinality(MatchingRoutes) = 2
    /\ BucketOf(resp.method)[1].path = <<"/", "u", "/", "{id}">>
    /\ resp.path = <<"/", "u", "/", "m">>
    /\ resp.params = [id |-> <<"m">>]

\* the failure envelope {"success": false, "error": ...}
IsFailureEnvelope(body) == DOMAIN body = {"success", "error"} /\ body.success = FALSE

\* C7: a request with no bucket for its method, or no matching route in it,
\* is answered 404 with the failure envelope and reaches no route handler and
\* no router or route middleware, whatever other methods have registered.
C7_NotFoundEnvelope ==
    (resp.served /\ MatchingRoutes = {}) =>
        /\ resp.status = 404
        /\ \A i \in 1..Len(resp.log) : resp.log[i].id.at = "app"
        /\ IsFailureEnvelope(resp.body)

\* the prefixes handed to Group for router r and for the routers that
\* enclose it, outermost first
RECURSIVE EnclosingPrefixes(_)
EnclosingPrefixes(r) ==
    IF r = 0 THEN <<>>
    ELSE EnclosingPrefixes(routers[r].parent) \o routers[r].given

\* the route as it would be compiled from the path handed to Add alone
Unprefixed(route) ==
    [pattern |-> CompiledPattern(route.own), paramNames |-> CompiledParamNames(route.own)]

\* the first route of the request's bucket that matches the request's path
FirstMatching(j) ==
    /\ j \in MatchingRoutes
    /\ \A k \in MatchingRoutes : j <= k

\* C21: a route registered through a group, at any nesting depth, is stored
\* in the root's buckets under the concatenation of every enclosing group
\* prefix followed by its own path, is dispatched by the root's Handle at
\* that prefixed path and is not matched by its unprefixed path; routes
\* registered on the root are dispatched from the same buckets.
C21_GroupIsView ==
    /\ \A m \in DOMAIN routes : \A j \in 1..Len(routes[m]) :
          LET route == routes[m][j]
          IN  /\ route.path = EnclosingPrefixes(route.via) \o route.own
              /\ route.via # RootRouter =>
                    \A p \in ReqPaths :
                        Match(Unprefixed(route), p).matched => ~Match(route, p).matched
    /\ resp.served =>
          \A j \in 1..Len(BucketOf(resp.method)) :
              FirstMatching(j) =>
                  /\ resp.route = j
                  /\ HandlerEvents(resp.log) = <<Event("handler", HandlerId(resp.method, j))>>

\* a route registered through a group of a group was dispatched at
\* /g/g/u/m, with a route registered on the root after it in the same bucket
C21_Witness ==
    /\ Dispatched
    /\ DispatchedRoute.via # RootRouter
    /\ routers[DispatchedRoute.via].parent # RootRouter
    /\ resp.path = <<"/", "g", "/", "g", "/", "u", "/", "m">>
    /\ DispatchedRoute.own = <<"/", "u", "/", "m">>

\* the middleware of the composed chain that saw their next return, innermost
\* first, up to the first one that converts the error
Unconverted(seen) ==
    {i \in 1..Len(seen) : \A k \in 1..(i - 1) : ~Converts(seen[k].id, resp)}

\* C22: when a route matches, the value Router.Handle returns is the value
\* the outermost element of the composed chain returned, and the value the
\* handler returned reaches every enclosing middleware unchanged, up to the
\* first middleware that converts it.
C22_ErrorsPropagate ==
    Dispatched =>
        /\ resp.err = resp.chainRet
        /\ \A i \in 1..Len(resp.seen) :
              /\ resp.seen[i].id.at = "app" => resp.seen[i].err = resp.chainRet
              /\ i \in Unconverted(resp.seen) => resp.seen[i].err = resp.does.ret
        /\ (\A i \in 1..Len(resp.seen) : ~Converts(resp.seen[i].id, resp)) =>
              resp.err = resp.does.ret

\* a handler returned an error through a route, a router and a global
\* middleware, none of which converts it
C22_Witness ==
    /\ Dispatched
    /\ resp.does = [ret |-> "boom", conv |-> "none"]
    /\ resp.err = "boom"
    /\ {resp.seen[i].id.at : i \in 1..Len(resp.seen)} = {"app", "router", "route"}

\* the same registration: method, path, handler, pattern and parameter names
SameRoute(a, b) ==
    /\ a.method = b.method
    /\ a.path = b.path
    /\ a.handler = b.handler
    /\ a.pattern = b.pattern
    /\ a.paramNames = b.paramNames

\* the buckets that hold more routes after the step than before
Grown == {m \in DOMAIN routes' : Len(routes'[m]) > Len(BucketOf(m))}

\* C26: every step keeps every bucket and every registered route at its
\* position with its method, path, handler, pattern and parameter names; a
\* step that registers a route appends exactly one route, at the end of the
\* bucket of its upper-cased method, and changes the length of no other
\* bucket.
C26_AppendOnly ==
    [][ /\ \A m \in DOMAIN routes :
              /\ m \in DOMAIN routes'
              /\ Len(routes'[m]) >= Len(routes[m])
              /\ \A i \in 1..Len(routes[m]) : SameRoute(routes[m][i], routes'[m][i])
        /\ Cardinality(Grown) <= 1
        /\ \A m \in Grown :
              /\ Len(routes'[m]) = Len(BucketOf(m)) + 1
              /\ routes'[m][Len(routes'[m])].method = m
              /\ m = ToUpper(m)
              /\ m \in {ToUpper(x) : x \in AddMethods} ]_vars

\* a route was added through a group, with a lower-case method, behind a
\* route of the same bucket, while another bucket holds a route
C26_Witness ==
    /\ Len(BucketOf("POST")) = 2
    /\ BucketOf("POST")[2].via # RootRouter
    /\ Len(BucketOf("GET")) = 1

\* the positions 1..n in order
UpTo(n) == [k \in 1..n |-> k]

\* C28: Router.Handle runs the handler of at most one route, at most once,
\* when every middleware calls its next once; when a route matched, Match
\* was called on the routes up to it and on no later one, and no later
\* route ran, whatever the handler returned.
C28_OneHandlerOrNone ==
    resp.served =>
        /\ Len(HandlerEvents(resp.log)) <= 1
        /\ Dispatched =>
              /\ HandlerEvents(resp.log) = <<Event("handler", DispatchedRoute.handler)>>
              /\ resp.tested = UpTo(resp.route)
        /\ ~Dispatched =>
              /\ HandlerEvents(resp.log) = <<>>
              /\ resp.tested = UpTo(Len(BucketOf(resp.method)))

\* the handler of the first of two matching routes returned an error and
\* the second was neither tested nor run
C28_Witness ==
    /\ Dispatched
    /\ resp.route = 1
    /\ MatchingRoutes = {1, 2}
    /\ resp.does.ret = "boom"
    /\ resp.err = "boom"

\* what ran inside the global middleware: the log without its first and
\* last Len(appMw) events
InsideGlobal(log) == SubSeq(log, Len(appMw) + 1, Len(log) - Len(appMw))

\* C30: the global middleware wraps Router.Handle: for every request, also
\* one that ends in 404, every global middleware runs its before and after
\* part, in Use order with the first registered outermost; router and route
\* middleware and handlers run only when a route matched.
C30_GlobalMiddlewareAlways ==
    resp.served =>
        /\ Len(resp.log) >= 2 * Len(appMw)
        /\ resp.log = Nested(appMw, InsideGlobal(resp.log))
        /\ \A i \in 1..Len(InsideGlobal(resp.log)) : InsideGlobal(resp.log)[i].id.at # "app"
        /\ ~Dispatched => (InsideGlobal(resp.log) = <<>> /\ resp.status = 404)
        /\ Dispatched => InsideGlobal(resp.log) # <<>>

\* a request that matched none of the registered routes was answered 404
\* inside two global middleware, with a router middleware registered
C30_Witness ==
    /\ resp.served
    /\ ~Dispatched
    /\ resp.status = 404
    /\ Len(appMw) = 2
    /\ routers[RootRouter].middleware # <<>>
    /\ BucketOf(resp.method) # <<>>
    /\ Len(resp.log) = 4

\* the request was answered by the middleware entered as the i-th
StoppedAt(i) ==
    /\ resp.served
    /\ resp.stopAt = i
    /\ i >= 1
    /\ Entered(resp) >= i

\* C31: when the middleware at position i of the composed chain returns
\* without calling next, the log of the request is the entry of the
\* positions 1..i, the return of position i and the after phases of the
\* positions i-1..1 in that order: nothing behind position i and no handler
\* ran, and every middleware before i got the value returned at position i
\* back from its next (the middleware hand back what their next returned)
C31_ShortCircuit ==
    \A i \in 1..MaxSetup :
        StoppedAt(i) =>
            /\ Len(resp.log) = 2 * i
            /\ \A k \in 1..i : resp.log[k].e = "before"
            /\ resp.log[i + 1] = Event("return", resp.log[i].id)
            /\ \A k \in 1..(i - 1) : resp.log[i + 1 + k] = Event("after", resp.log[i - k].id)
            /\ Len(resp.seen) = i - 1
            /\ \A k \in 1..(i - 1) :
                    resp.seen[k] = [id |-> resp.log[i - k].id, err |-> resp.does.ret]
            /\ resp.err = resp.does.ret

\* the third middleware of a chain, a route middleware behind a global and
\* a router middleware, answered the request and returned an error
C31_Witness ==
    /\ StoppedAt(3)
    /\ resp.does.ret = "boom"
    /\ resp.log[1].id.at = "app"
    /\ resp.log[2].id.at = "router"
    /\ resp.log[3].id.at = "route"

(***************************************************************************)
(* Claims about the matcher                                                *)
(***************************************************************************)
\* C8: the path built by substituting a literal for every {name} and {name?}
\* of a template is accepted by Match, and the returned params bind every
\* declared name to the literal substituted at its position.
C8_SubstitutedPathRoundTrip ==
    mpc = "matched" => (mResult.matched /\ mResult.params = mValues)

\* the parameters that were left out of the path handed to Match
LeftOut == {name \in DOMAIN mValues : mValues[name] = <<>>}

\* C24: when a path matches a template with an optional {name?} segment
\* left out, Match reports a match and the returned params have no entry for
\* name; every entry of the returned params has a non-empty value.
C24_OmittedOptionalAbsent ==
    (mpc = "tried" /\ mResult.matched) =>
        /\ \A name \in LeftOut : name \notin DOMAIN mResult.params
        /\ \A name \in DOMAIN mResult.params : mResult.params[name] # <<>>

HasSeparator(s) == \E i \in 1..Len(s) : s[i] = "/"

QuotaEnforced ==
    /\ last.k <= quota => (last.calledNext /\ last.status # 429)
    /\ last.k = quota + 1 => (last.status = 429 /\ ~last.calledNext)
    /\ (last.newWin /\ ~last.first) =>
            /\ last.calledNext
            /\ last.client = [requests |-> 1, resetTime |-> last.t + Window]

\* C9: with RateLimitMiddleware(N) and requests handled one at a time, the
\* first N requests of a window reach downstream, the (N+1)-th is answered
\* 429 without invoking downstream, and the first request after the reset
\* time reaches downstream and leaves the counter at 1 with a new reset time
\* one window later.
C9_QuotaPerWindow == last.done => QuotaEnforced

\* C10: under concurrent dispatch no increment or first insertion of a client
\* is lost: at most N of the client's requests of one window are passed
\* downstream.
C10_NoLostUpdate ==
    quota >= 1 => \A ip \in IPs : rwin[ip].passed <= quota

\* C32: with requests handled one at a time, for every quota N >= 0 and
\* every client at most N of the client's requests of one window are passed
\* downstream, the client's first request included.
C32_AtMostQuotaPerWindow ==
    \A ip \in IPs : rwin[ip].passed <= quota

\* the step answers the request of goroutine g with 429
Rejecting(g) == rq[g].pc = "check" /\ rq'[g].pc = "idle"

\* the step moves the reset time of the client ip only if it handles the
\* first request of ip after the reset time has passed, and then to one
\* window after that request; the first request of a client stores a reset
\* time one window after it
ResetTimeFixed ==
    /\ \A ip \in DOMAIN clients :
          LET old == cobjs[clients[ip]]
              new == cobjs'[clients'[ip]]
          IN  /\ ip \in DOMAIN clients'
              /\ new.resetTime # old.resetTime =>
                    \E g \in Procs :
                        /\ rq[g].pc = "check"
                        /\ rq[g].ip = ip
                        /\ rq[g].t > old.resetTime
                        /\ new.resetTime = rq[g].t + Window
    /\ \A ip \in DOMAIN clients' \ DOMAIN clients :
          \E g \in Procs :
              /\ rq[g].pc = "insert"
              /\ rq[g].ip = ip
              /\ cobjs'[clients'[ip]].resetTime = rq[g].t + Window

Reached(mw, i) ==
    /\ bres.served
    /\ i \in 1..Len(chain)
    /\ chain[i] = mw
    /\ bres.entered[i] > 0

\* C11: an OPTIONS request that reaches CORSMiddleware is answered 204 with
\* the four Access-Control-* headers and goes no further; any other request
\* gets the same headers and is passed downstream exactly once.
C11_CORSPreflight ==
    \A i \in 1..Len(chain) :
        Reached("cors", i) =>
            /\ CORSHeaders \subseteq bres.headers
            /\ IF bres.method = "OPTIONS"
               THEN /\ bres.status = 204
                    /\ \A j \in (i + 1)..(Len(chain) + 1) : bres.entered[j] = 0
               ELSE bres.entered[i + 1] = 1

\* an OPTIONS request reached a CORSMiddleware that has a handler behind it
C11_Witness ==
    \E i \in 1..Len(chain) :
        Reached("cors", i) /\ bres.method = "OPTIONS" /\ bres.down = "panic"

\* C12: when the handler behind RecoveryMiddleware panics, Recovery does not
\* panic itself, returns no error and leaves status 500 with the generic body;
\* when it does not panic, Recovery hands back exactly what it was handed.
C12_RecoveryContainsFault ==
    \A i \in 1..Len(chain) :
        Reached("recovery", i) =>
            IF bres.out[i + 1].panic
            THEN bres.out[i] =
                    [bres.out[i + 1] EXCEPT !.panic = FALSE, !.ret = "nil",
                        !.status = 500, !.body = [error |-> "Internal Server Error"]]
            ELSE bres.out[i] = bres.out[i + 1]

\* the final handler panicked behind RecoveryMiddleware with another
\* middleware in between
C12_Witness ==
    \E i \in 1..Len(chain) :
        /\ Reached("recovery", i)
        /\ i + 1 <= Len(chain)
        /\ bres.out[i + 1].panic
        /\ bres.status = 500 /\ ~bres.panic

\* C13: LoggerMiddleware writes exactly one record for every request that
\* reaches it, after the handlers behind it have finished, with the final
\* response status and the propagated error, and returns that error
\* unchanged; whether the final handler returns normally, returns an error or
\* panics, also in an application made by Bootstrap.
C13_LoggerOneRecord ==
    \A i \in 1..Len(chain) :
        Reached("logger", i) =>
            /\ Len(bres.logs) = 1
            /\ bres.logs[1].status = bres.status
            /\ bres.logs[1].err = bres.out[i + 1].ret
            /\ bres.out[i].ret = bres.out[i + 1].ret

\* the token AuthMiddleware finds: the Authorization header, else the cookie
PresentedToken == IF bres.auth = <<>> THEN bres.cookie ELSE bres.auth

\* C14: AuthMiddleware answers 401 without calling downstream when no token
\* is presented or when the validation function rejects the token; otherwise
\* the validation result is in the Context under "user" when downstream runs,
\* and downstream runs exactly once.
C14_AuthGate ==
    \A i \in 1..Len(chain) :
        Reached("auth", i) =>
            IF PresentedToken = <<>>
               \/ ValidateToken(TrimPrefix(PresentedToken, "Bearer ")).err
            THEN /\ bres.out[i].status = 401
                 /\ bres.entered[i + 1] = 0
            ELSE /\ bres.entered[i + 1] = 1
                 /\ "user" \in DOMAIN bres.out[i + 1].store
                 /\ bres.out[i + 1].store["user"]
                        = ValidateToken(TrimPrefix(PresentedToken, "Bearer ")).user

\* a request whose Authorization header holds only the "Bearer " prefix
\* reached AuthMiddleware
C14_Witness ==
    \E i \in 1..Len(chain) :
        /\ Reached("auth", i)
        /\ bres.auth = <<"Bearer ">>
        /\ bres.cookie # <<>>

MutatingMethods == {"POST", "PUT", "PATCH"}

\* C15: JSONOnlyMiddleware answers 415 without calling downstream for a POST,
\* PUT or PATCH request whose Content-Type does not declare application/json;
\* a GET request and a mutating request that declares application/json reach
\* downstream.
C15_JSONOnly ==
    \A i \in 1..Len(chain) :
        Reached("jsononly", i) =>
            /\ (bres.method \in MutatingMethods
                    /\ ~Contains(bres.ctype, "application/json")) =>
                    (bres.out[i].status = 415 /\ bres.entered[i + 1] = 0)
            /\ (bres.method = "GET"
                    \/ (bres.method \in MutatingMethods \cup {"DELETE"}
                            /\ Contains(bres.ctype, "application/json"))) =>
                    bres.entered[i + 1] = 1

\* a PATCH request without a JSON content type reached JSONOnlyMiddleware
C15_Witness ==
    \E i \in 1..Len(chain) :
        /\ Reached("jsononly", i)
        /\ bres.method = "PATCH"
        /\ bres.ctype = <<"text/plain">>

\* C16: TrimTrailingSlashMiddleware answers a path longer than one character
\* that ends in "/" with a 301 redirect to the path without that slash and
\* does not call downstream; "/" and every other path go downstream unchanged.
C16_TrimTrailingSlash ==
    \A i \in 1..Len(chain) :
        Reached("trim", i) =>
            IF Len(bres.path) > 1 /\ bres.path[Len(bres.path)] = "/"
            THEN /\ bres.out[i].status = 301
                 /\ bres.out[i].location \o <<"/">> = bres.path
                 /\ bres.entered[i + 1] = 0
            ELSE /\ bres.entered[i + 1] = 1
                 /\ bres.out[i] = bres.out[i + 1]

\* a path with a trailing slash reached TrimTrailingSlashMiddleware and the
\* response is the redirect
C16_Witness ==
    \E i \in 1..Len(chain) :
        /\ Reached("trim", i)
        /\ bres.path = <<"/", "a", "/">>
        /\ bres.status = 301

(***************************************************************************)
(* Claims about request Contexts                                           *)
(***************************************************************************)
Active == {g \in Procs : reqs[g].pc # "idle"}

\* C23: every request is served with its own new Context whose params and
\* store start empty, and under any interleaving of concurrently served
\* requests what a request reads with Get or Param, and what its Context
\* holds, was written or bound by that request.
C23_ContextIsolation ==
    \A g \in Active :
        LET c == contexts[reqs[g].ctx]
        IN  /\ reqs[g].first = [params |-> EmptyMap, store |-> EmptyMap]
            /\ \A h \in Active \ {g} : reqs[h].ctx # reqs[g].ctx
            /\ \A key \in DOMAIN c.store : c.store[key] = reqs[g].n
            /\ \A name \in DOMAIN c.params : c.params[name] = Payload(reqs[g].n)
            /\ reqs[g].got.k \in {0, reqs[g].n}
            /\ reqs[g].got.id \in {<<>>, Payload(reqs[g].n)}

\* two requests are served at once, both have stored a value and bound
\* params, and one of them has read its own back
C23_Witness ==
    /\ Active = Procs
    /\ \A g \in Procs : DOMAIN contexts[reqs[g].ctx].store = {"k"}
    /\ \A g \in Procs : DOMAIN contexts[reqs[g].ctx].params = {"id"}
    /\ \E g \in Procs : reqs[g].got.read /\ reqs[g].got.k = reqs[g].n
                            /\ reqs[g].got.id = Payload(reqs[g].n)

(***************************************************************************)
(* Claims about resolvers that call the container                          *)
(***************************************************************************)
\* C27: Make does not hold the container lock while the resolver runs: every
\* Make whose resolver calls Make or Bind on acyclic bindings returns, also
\* when several such calls run concurrently.
C27_NestedMakeTerminates ==
    \A g \in Procs : (stacks[g] # <<>>) ~> (stacks[g] = <<>>)

\* two Make calls whose resolvers called the container have returned, and
\* a singleton was stored
C27_Witness ==
    /\ finished >= 2
    /\ cached # {}
    /\ \A g \in Procs : stacks[g] = <<>>

(***************************************************************************)
(* Claims about the Migrator                                               *)
(***************************************************************************)
\* the names of a sequence of names
NamesOf(seq) == {seq[i] : i \in 1..Len(seq)}

\* the registered migrations that had no record when the operation began
PendingAtStart == NamesOf(mig.registered) \ NamesOf(mig.before)

\* the first 2n events are n pairs of a successful Up and the record of the
\* same migration, in ascending order of name
UpsRecorded(n) ==
    /\ Len(mig.events) >= 2 * n
    /\ \A k \in 1..n :
          /\ mig.events[2 * k - 1].e = "up"
          /\ mig.events[2 * k] = MigEvent("record", mig.events[2 * k - 1].name)
    /\ \A k, l \in 1..n : k < l => mig.events[2 * k - 1].name < mig.events[2 * l - 1].name

C39_TransactionEndsOnce ==
    \A k \in 1..Len(txns) :
        LET tx == txns[k] IN
        /\ tx.commits + tx.rollbacks <= 1
        /\ tx.over =>
              /\ tx.commits + tx.rollbacks = 1
              /\ tx.commits = 1 <=> tx.fn = "nil"
              /\ tx.fn = "nil" => ~tx.panicked /\ tx.ret \in {"nil", "commit error"}
              /\ tx.fn = "err" => ~tx.panicked /\ tx.ret = "fn error"
              /\ tx.fn = "panic" <=> tx.panicked

\* three calls have ended: one callback returned nil, one an error, one
\* panicked
C39_Witness ==
    /\ Len(txns) = 3
    /\ \A k \in 1..3 : txns[k].over
    /\ {txns[k].fn : k \in 1..3} = CallbackOutcomes

====
